---- MODULE Spec2Model ----
(***************************************************************************)
(* A model of the defmt plugin core: the context manager                   *)
(* (src/src/context_manager.rs), the attribute bag of an event record      *)
(* (src/src/event_record.rs) and the streaming driver with its one-slot    *)
(* look-ahead buffer (src/src/defmt_reader.rs).                            *)
(***************************************************************************)
EXTENDS Integers, Sequences, FiniteSets, TLC

(***************************************************************************)
(* Bounds of the model.                                                    *)
(***************************************************************************)
\* Records handed to process_record in one run.
MaxRecords == 5
\* Width, in bits, the signed 64-bit timeline nonce is scaled to, so that
\* the wrap from the largest to the smallest value is reached within
\* MaxRecords events.
NonceBits == 3
\* Malformed frames the stream decoder reports in one run.
MaxMalformed == 1

\* u128::MAX and u64::MAX, the saturation points of global_ordering and
\* event_counter and the ranges of the unsigned arguments of a frame.  They
\* lie beyond the integers of the model checker: the largest one it has
\* stands for u128::MAX and half of it for u64::MAX.  No run of MaxRecords
\* records comes near either.
U128_MAX == 2147483647
U64_MAX == 1073741823

I64_MAX == 2 ^ (NonceBits - 1) - 1
I64_MIN == 0 - 2 ^ (NonceBits - 1)

(***************************************************************************)
(* Option<T>, attribute values and attribute keys.  A key is the sequence  *)
(* of its dot-separated segments: "event.internal.defmt.nonce" is          *)
(* <<"event", "internal", "defmt", "nonce">>.                              *)
(***************************************************************************)
None == <<>>
Some(v) == <<v>>
is_some(o) == Len(o) = 1
is_none(o) == Len(o) = 0
unwrap(o) == o[1]

String(s) == <<"String", s>>
Integer(n) == <<"Integer", n>>
BigInt(n) == <<"BigInt", n>>
Bool(b) == <<"Bool", b>>
TimelineIdVal(t) == <<"TimelineId", t>>
Timestamp(ns) == <<"Timestamp", ns>>

EmptyAttrs == [k \in {} |-> None]

\* BTreeMap::insert, BTreeMap::remove and BTreeMap::get
map_insert(attrs, k, v) ==
    [x \in (DOMAIN attrs) \cup {k} |-> IF x = k THEN v ELSE attrs[x]]

map_remove(attrs, k) == [x \in (DOMAIN attrs) \ {k} |-> attrs[x]]

map_get(attrs, k) == IF k \in DOMAIN attrs THEN Some(attrs[k]) ELSE None

\* A map from a set of <<key, value>> pairs with distinct keys.
from_iter(pairs) ==
    [k \in {p[1] : p \in pairs} |-> (CHOOSE p \in pairs : p[1] = k)[2]]

(***************************************************************************)
(* EventRecord (src/src/event_record.rs)                                   *)
(***************************************************************************)
\* A plausible slip: the key is taken as given.
attr_key_as_given(k) == k

attr_key(k) == <<"event">> \o k

internal_attr_key(k) == <<"event", "internal", "defmt">> \o k

insert_attr(ev, k, v) == map_insert(ev, k, v)

\* The attribute under `k` when it is an AttrVal::String / AttrVal::Integer.
string_attr(ev, k) ==
    IF k \in DOMAIN ev /\ ev[k][1] = "String" THEN Some(ev[k][2]) ELSE None

integer_attr(ev, k) ==
    IF k \in DOMAIN ev /\ ev[k][1] = "Integer" THEN Some(ev[k][2]) ELSE None

event_name(ev) == string_attr(ev, <<"event", "name">>)

task_name(ev) == string_attr(ev, <<"event", "task">>)

isr_name(ev) == string_attr(ev, <<"event", "isr">>)

integration_version(ev) == integer_attr(ev, <<"event", "version">>)

timestamp_raw(ev) ==
    LET k == <<"event", "internal", "defmt", "timestamp">>
    IN  IF k \in DOMAIN ev /\ ev[k][1] \in {"BigInt", "Integer"}
        THEN Some(ev[k][2])
        ELSE None

internal_nonce(ev) ==
    integer_attr(ev, <<"event", "internal", "defmt", "nonce">>)

add_internal_nonce(ev, nonce) ==
    map_insert(ev, internal_attr_key(<<"nonce">>), Integer(nonce))

\* A plausible slip: the interaction is written under the user-visible keys
\* whether interactions are enabled or not.
add_interaction_always_visible(ev, interactions_enabled, remote_tid, remote_nonce) ==
    map_insert(map_insert(ev, attr_key(<<"interaction", "remote_timeline_id">>),
                          TimelineIdVal(remote_tid)),
               attr_key(<<"interaction", "remote_nonce">>), Integer(remote_nonce))

add_interaction(ev, interactions_enabled, remote_tid, remote_nonce) ==
    LET rem_tid == IF interactions_enabled
                   THEN attr_key(<<"interaction", "remote_timeline_id">>)
                   ELSE internal_attr_key(<<"interaction", "remote_timeline_id">>)
        rem_nonce == IF interactions_enabled
                     THEN attr_key(<<"interaction", "remote_nonce">>)
                     ELSE internal_attr_key(<<"interaction", "remote_nonce">>)
    IN  map_insert(map_insert(ev, rem_tid, TimelineIdVal(remote_tid)),
                   rem_nonce, Integer(remote_nonce))

\* promote_internal_nonce without the removal of the internal key.
promote_internal_nonce_keeping(ev) ==
    LET k == <<"event", "internal", "defmt", "nonce">>
    IN  IF k \in DOMAIN ev
        THEN map_insert(ev, attr_key(<<"nonce">>), ev[k])
        ELSE ev

promote_internal_nonce(ev) ==
    LET k == <<"event", "internal", "defmt", "nonce">>
    IN  IF k \in DOMAIN ev
        THEN map_insert(map_remove(ev, k), attr_key(<<"nonce">>), ev[k])
        ELSE ev

(***************************************************************************)
(* TimelineMeta (src/src/context_manager.rs)                               *)
(***************************************************************************)
timeline_attr_key(k) == <<"timeline">> \o k

timeline_internal_attr_key(k) == <<"timeline", "internal", "defmt">> \o k

\* DefaultHasher over the context's name: distinct names, distinct ids.
context_id(ctx_name) == <<"hash", ctx_name>>

\* RtosMode's Display
rtos_mode_to_string(mode) == IF mode = "Rtic1" THEN "rtic1" ELSE "none"

\* TimelineMeta::new; `id` is the freshly allocated TimelineId.
TimelineMeta_new(ctx_name, ctx_id, id) ==
    [id |-> id,
     ctx_id |-> ctx_id,
     attributes |->
        map_insert(
            map_insert(EmptyAttrs, timeline_attr_key(<<"name">>), String(ctx_name)),
            timeline_internal_attr_key(<<"context", "id">>), BigInt(ctx_id)),
     nonce |-> 0,
     requires_synthetic_interaction_event |-> FALSE]

\* i64::wrapping_add(1), on the scaled width
wrapping_add(n) == IF n = I64_MAX THEN I64_MIN ELSE n + 1

\* A plausible slip: the nonce sticks at its largest value.
increment_nonce_saturating(tl) ==
    [tl EXCEPT !.nonce = IF @ = I64_MAX THEN @ ELSE @ + 1]

increment_nonce(tl) == [tl EXCEPT !.nonce = wrapping_add(@)]

\* interaction_source with the post-increment nonce of a context pop.
interaction_source_post_increment(tl) == <<tl.ctx_id, tl.id, wrapping_add(tl.nonce)>>

interaction_source(tl) == <<tl.ctx_id, tl.id, tl.nonce>>

\* next_interaction_source with an addition that does not wrap.
next_interaction_source_unwrapped(tl) == <<tl.ctx_id, tl.id, tl.nonce + 1>>

next_interaction_source(tl) == <<tl.ctx_id, tl.id, wrapping_add(tl.nonce)>>

(***************************************************************************)
(* ContextManager (src/src/context_manager.rs).  The manager is the record *)
(* `m`; an operation that returns Result<_, Error> yields a record whose   *)
(* `ok` is FALSE for Err(ContextManagerInternalState).                     *)
(***************************************************************************)
UNKNOWN_CONTEXT == "UNKNOWN_CONTEXT"
SYNTHETIC_INTERACTION_EVENT == "AUXON_CONTEXT_RETURN"
DEFAULT_SINGLE_TIMELINE_CONTEXT_NAME == "main"
TRACE_START == "AUXON_TRACE_START"
TASK_ENTER == "AUXON_TASK_ENTER"
TASK_EXIT == "AUXON_TASK_EXIT"
ISR_ENTER == "AUXON_INTERRUPT_ENTER"
ISR_EXIT == "AUXON_INTERRUPT_EXIT"

ContextManager_new(cfg, common_timeline_attrs) ==
    [cfg |-> cfg,
     common_timeline_attrs |-> common_timeline_attrs,
     global_ordering |-> 0,
     event_counter |-> 0,
     last_timestamp |-> None,
     integration_version |-> None,
     pending_context_switch_interaction |-> None,
     context_stack |-> <<>>,
     contexts_to_timelines |-> EmptyAttrs]

\* u128::saturating_add(1) and u64::saturating_add(1)

saturating_add_u128(n) == IF n = U128_MAX THEN n ELSE n + 1

saturating_add_u64(n) == IF n = U64_MAX THEN n ELSE n + 1

\* TimelineId::allocate(): an id no timeline of the run has yet.  Timelines
\* are never removed, so the number allocated so far names the next one.
TimelineId_allocate(m) == Cardinality(DOMAIN m.contexts_to_timelines) + 1

\* A plausible slip: insert instead of entry().or_insert_with(): a context
\* seen again gets a fresh TimelineMeta.
alloc_context_replaces(m, ctx_name) ==
    LET ctx_id == context_id(ctx_name)
        tl0 == TimelineMeta_new(ctx_name, ctx_id, TimelineId_allocate(m))
        a2 == map_insert(tl0.attributes, timeline_internal_attr_key(<<"rtos_mode">>),
                         String(rtos_mode_to_string(m.cfg.rtos_mode)))
    IN  [m EXCEPT !.contexts_to_timelines =
            map_insert(@, ctx_id, [tl0 EXCEPT !.attributes = a2])]

alloc_context(m, ctx_name) ==
    LET ctx_id == context_id(ctx_name)
        tl0 == TimelineMeta_new(ctx_name, ctx_id, TimelineId_allocate(m))
        a1 == IF is_some(m.integration_version)
              THEN map_insert(tl0.attributes,
                              timeline_internal_attr_key(<<"integration_version">>),
                              Integer(unwrap(m.integration_version)))
              ELSE tl0.attributes
        a2 == map_insert(a1, timeline_internal_attr_key(<<"rtos_mode">>),
                         String(rtos_mode_to_string(m.cfg.rtos_mode)))
        a3 == [k \in (DOMAIN a2) \cup (DOMAIN m.common_timeline_attrs) |->
                  IF k \in DOMAIN m.common_timeline_attrs
                  THEN m.common_timeline_attrs[k]
                  ELSE a2[k]]
    IN  IF ctx_id \in DOMAIN m.contexts_to_timelines
        THEN m
        ELSE [m EXCEPT !.contexts_to_timelines =
                  map_insert(@, ctx_id, [tl0 EXCEPT !.attributes = a3])]

active_context(m) ==
    IF m.context_stack = <<>>
    THEN None
    ELSE Some(m.context_stack[Len(m.context_stack)])

timeline_meta(m, ctx_id) == map_get(m.contexts_to_timelines, ctx_id)

push_context(m, ctx_id) ==
    LET a == active_context(m)
    IN  IF is_none(a) \/ is_none(timeline_meta(m, unwrap(a)))
        THEN [ok |-> FALSE, m |-> m, interaction |-> None]
        ELSE [ok |-> TRUE,
              m |-> [m EXCEPT
                       !.contexts_to_timelines[unwrap(a)].requires_synthetic_interaction_event = FALSE,
                       !.context_stack = Append(@, ctx_id)],
              interaction |-> interaction_source(m.contexts_to_timelines[unwrap(a)])]

\* The pop proper (the else branch of pop_context): the stack holds at
\* least one element.
\* A plausible slip: the popped timeline keeps its synthetic event flag.
pop_active_keeping_flag(m) ==
    LET ctx_id == m.context_stack[Len(m.context_stack)]
        m1 == [m EXCEPT !.context_stack = SubSeq(@, 1, Len(@) - 1)]
        a == active_context(m1)
    IN  IF is_none(timeline_meta(m1, ctx_id)) \/ is_none(a)
           \/ is_none(timeline_meta(m1, unwrap(a)))
        THEN [ok |-> FALSE, m |-> m1, interaction |-> None]
        ELSE [ok |-> TRUE,
              m |-> [m1 EXCEPT
                       !.contexts_to_timelines[unwrap(a)].requires_synthetic_interaction_event = TRUE],
              interaction |->
                  Some(next_interaction_source(m1.contexts_to_timelines[ctx_id]))]

\* A plausible slip: the popped timeline is flagged, not the new top.
pop_active_flagging_popped(m) ==
    LET ctx_id == m.context_stack[Len(m.context_stack)]
        m1 == [m EXCEPT !.context_stack = SubSeq(@, 1, Len(@) - 1)]
        a == active_context(m1)
    IN  IF is_none(timeline_meta(m1, ctx_id)) \/ is_none(a)
           \/ is_none(timeline_meta(m1, unwrap(a)))
        THEN [ok |-> FALSE, m |-> m1, interaction |-> None]
        ELSE [ok |-> TRUE,
              m |-> [m1 EXCEPT
                       !.contexts_to_timelines[ctx_id].requires_synthetic_interaction_event = TRUE],
              interaction |->
                  Some(next_interaction_source(m1.contexts_to_timelines[ctx_id]))]

pop_active(m) ==
    LET ctx_id == m.context_stack[Len(m.context_stack)]
        m1 == [m EXCEPT !.context_stack = SubSeq(@, 1, Len(@) - 1)]
        m2 == [m1 EXCEPT
                 !.contexts_to_timelines[ctx_id].requires_synthetic_interaction_event = FALSE]
        a == active_context(m2)
    IN  IF is_none(timeline_meta(m1, ctx_id))
        THEN [ok |-> FALSE, m |-> m1, interaction |-> None]
        ELSE IF is_none(a) \/ is_none(timeline_meta(m2, unwrap(a)))
        THEN [ok |-> FALSE, m |-> m2, interaction |-> None]
        ELSE [ok |-> TRUE,
              m |-> [m2 EXCEPT
                       !.contexts_to_timelines[unwrap(a)].requires_synthetic_interaction_event = TRUE],
              interaction |->
                  Some(next_interaction_source(m2.contexts_to_timelines[ctx_id]))]

\* A plausible slip: the size-1 guard is missing and the root is popped.
pop_context_unguarded(m) ==
    IF m.context_stack = <<>>
    THEN [ok |-> FALSE, m |-> m, interaction |-> None]
    ELSE [ok |-> TRUE,
          m |-> [m EXCEPT !.context_stack = SubSeq(@, 1, Len(@) - 1)],
          interaction |-> None]

pop_context(m) ==
    IF Len(m.context_stack) = 1
    THEN [ok |-> TRUE, m |-> m, interaction |-> None]
    ELSE IF m.context_stack = <<>>
    THEN [ok |-> FALSE, m |-> m, interaction |-> None]
    ELSE pop_active(m)

Err(m) == [ok |-> FALSE, m |-> m, events |-> <<>>]

ContextEvent(context, global_ordering, record, add_previous_event_nonce) ==
    [context |-> context,
     global_ordering |-> global_ordering,
     record |-> record,
     add_previous_event_nonce |-> add_previous_event_nonce]

\* process_rtic1, the start-event check: the first record must be named
\* AUXON_TRACE_START and carry the task name and the version.
start_event_valid(ev) ==
    /\ event_name(ev) = Some(TRACE_START)
    /\ is_some(task_name(ev))
    /\ is_some(integration_version(ev))

\* A plausible slip: the fallback returns the record without the counter
\* stamped on it.
fallback_context_without_counter(m, ev) ==
    LET m1 == alloc_context([m EXCEPT !.cfg.rtos_mode = "None"], UNKNOWN_CONTEXT)
        ctx_id == context_id(UNKNOWN_CONTEXT)
    IN  [ok |-> TRUE,
         m |-> [m1 EXCEPT !.context_stack = Append(@, ctx_id)],
         events |-> <<ContextEvent(ctx_id, m.global_ordering,
                                   map_remove(ev, internal_attr_key(<<"event_counter">>)),
                                   FALSE)>>]

\* A plausible slip: the fallback leaves RTOS mode on.
fallback_context_keeps_mode(m, ev) ==
    LET m1 == alloc_context(m, UNKNOWN_CONTEXT)
        ctx_id == context_id(UNKNOWN_CONTEXT)
    IN  [ok |-> TRUE,
         m |-> [m1 EXCEPT !.context_stack = Append(@, ctx_id)],
         events |-> <<ContextEvent(ctx_id, m.global_ordering, ev, FALSE)>>]

\* A plausible slip: the fallback context is allocated but not pushed on
\* the context stack.
fallback_context_without_push(m, ev) ==
    LET m1 == alloc_context([m EXCEPT !.cfg.rtos_mode = "None"], UNKNOWN_CONTEXT)
    IN  [ok |-> TRUE,
         m |-> m1,
         events |-> <<ContextEvent(context_id(UNKNOWN_CONTEXT), m.global_ordering, ev, FALSE)>>]

\* process_rtic1, "Setup a fallback context": RTOS mode is disabled and the
\* record is returned as it is on UNKNOWN_CONTEXT.
fallback_context(m, ev) ==
    LET m1 == alloc_context([m EXCEPT !.cfg.rtos_mode = "None"], UNKNOWN_CONTEXT)
        ctx_id == context_id(UNKNOWN_CONTEXT)
    IN  [ok |-> TRUE,
         m |-> [m1 EXCEPT !.context_stack = Append(@, ctx_id)],
         events |-> <<ContextEvent(ctx_id, m.global_ordering, ev, FALSE)>>]

\* A plausible slip: the synthetic event takes the call's global_ordering
\* and the counter is not advanced for the record that follows it.
synthesize_without_ordering(m, ev, a) ==
    LET m1 == [m EXCEPT
                 !.contexts_to_timelines[a] =
                     increment_nonce([@ EXCEPT !.requires_synthetic_interaction_event = FALSE])]
        r0 == insert_attr(EmptyAttrs, attr_key(<<"name">>),
                          String(SYNTHETIC_INTERACTION_EVENT))
        r1 == insert_attr(r0, internal_attr_key(<<"synthetic">>), Bool(TRUE))
        r2 == add_internal_nonce(r1, m1.contexts_to_timelines[a].nonce)
    IN  [m |-> [m1 EXCEPT !.pending_context_switch_interaction = None],
         event |-> ContextEvent(a, m.global_ordering, r2, FALSE)]

\* The synthetic AUXON_CONTEXT_RETURN event of the "Context enter" arm, on
\* the active context `a`; yields the manager and the event.
synthesize_interaction_event(m, ev, a) ==
    LET m1 == [m EXCEPT
                 !.contexts_to_timelines[a] =
                     increment_nonce([@ EXCEPT !.requires_synthetic_interaction_event = FALSE])]
        r0 == insert_attr(EmptyAttrs, attr_key(<<"name">>),
                          String(SYNTHETIC_INTERACTION_EVENT))
        r1 == insert_attr(r0, internal_attr_key(<<"synthetic">>), Bool(TRUE))
        r2 == add_internal_nonce(r1, m1.contexts_to_timelines[a].nonce)
        r3 == IF <<"event", "timestamp">> \in DOMAIN ev
              THEN insert_attr(r2, attr_key(<<"timestamp">>), ev[<<"event", "timestamp">>])
              ELSE r2
        pending == m1.pending_context_switch_interaction
        r4 == IF is_some(pending)
              THEN add_interaction(r3, ~m1.cfg.disable_interactions,
                                   unwrap(pending)[2], unwrap(pending)[3])
              ELSE r3
        add_previous_event_nonce ==
            IF is_some(pending) THEN ~m1.cfg.disable_interactions ELSE FALSE
    IN  [m |-> [m1 EXCEPT
                  !.pending_context_switch_interaction = None,
                  !.global_ordering = saturating_add_u128(@)],
         event |-> ContextEvent(a, m.global_ordering, r4, add_previous_event_nonce)]

\* Each arm of process_rtic1's match yields the manager, the synthetic
\* events that come first, the context the record is assigned to and the
\* interaction the record carries.
ArmErr(m) ==
    [ok |-> FALSE, m |-> m, events |-> <<>>, ctx |-> None, interaction |-> None]

\* "Context enter"
context_enter(m, ev, ctx_name) ==
    LET ctx_id == context_id(ctx_name)
        m1 == alloc_context(m, ctx_name)
        a == active_context(m1)
        syn == synthesize_interaction_event(m1, ev, unwrap(a))
        bridge == m1.contexts_to_timelines[unwrap(a)].requires_synthetic_interaction_event
        m2 == IF bridge THEN syn.m ELSE m1
        p == push_context(m2, ctx_id)
    IN  IF is_none(a) \/ is_none(timeline_meta(m1, unwrap(a)))
        THEN ArmErr(m1)
        ELSE IF ~p.ok
        THEN ArmErr(p.m)
        ELSE [ok |-> TRUE,
              m |-> p.m,
              events |-> IF bridge THEN <<syn.event>> ELSE <<>>,
              ctx |-> ctx_id,
              interaction |-> Some(p.interaction)]

\* A plausible slip: the exit record is assigned to the context that is
\* active after the pop.
context_exit_assigned_below(m) ==
    LET a == active_context(m)
        pending_interaction_for_this_event == m.pending_context_switch_interaction
        p == pop_context([m EXCEPT !.pending_context_switch_interaction = None])
    IN  IF is_none(a)
        THEN ArmErr(m)
        ELSE IF ~p.ok
        THEN ArmErr(p.m)
        ELSE [ok |-> TRUE,
              m |-> [p.m EXCEPT !.pending_context_switch_interaction = p.interaction],
              events |-> <<>>,
              ctx |-> unwrap(active_context(p.m)),
              interaction |-> pending_interaction_for_this_event]

\* "Context exit"
context_exit(m) ==
    LET a == active_context(m)
        pending_interaction_for_this_event == m.pending_context_switch_interaction
        p == pop_context([m EXCEPT !.pending_context_switch_interaction = None])
    IN  IF is_none(a)
        THEN ArmErr(m)
        ELSE IF ~p.ok
        THEN ArmErr(p.m)
        ELSE [ok |-> TRUE,
              m |-> [p.m EXCEPT !.pending_context_switch_interaction = p.interaction],
              events |-> <<>>,
              ctx |-> unwrap(a),
              interaction |-> pending_interaction_for_this_event]

\* "Start event"
start_event(m, ev, ctx_name) ==
    LET version == unwrap(integration_version(ev)) % 65536
        m1 == [m EXCEPT !.integration_version = Some(version)]
        init_task_name == IF is_some(m1.cfg.init_task_name)
                          THEN unwrap(m1.cfg.init_task_name)
                          ELSE ctx_name
        ctx_id == context_id(init_task_name)
        m2 == alloc_context(m1, init_task_name)
    IN  [ok |-> TRUE,
         m |-> [m2 EXCEPT !.context_stack = Append(@, ctx_id)],
         events |-> <<>>,
         ctx |-> ctx_id,
         interaction |-> None]

\* A plausible slip: the pending interaction survives the transition to the
\* unknown context.
normal_event_keeps_pending(m, name) ==
    LET m1 == IF name \in {Some(TASK_ENTER), Some(ISR_ENTER)}
              THEN LET d == alloc_context([m EXCEPT !.cfg.rtos_mode = "None"],
                                          UNKNOWN_CONTEXT)
                   IN  [d EXCEPT
                          !.context_stack = Append(@, context_id(UNKNOWN_CONTEXT))]
              ELSE m
        a == active_context(m1)
    IN  IF is_none(a) \/ is_none(timeline_meta(m1, unwrap(a)))
        THEN ArmErr(m1)
        ELSE [ok |-> TRUE,
              m |-> [m1 EXCEPT
                       !.contexts_to_timelines[unwrap(a)].requires_synthetic_interaction_event = FALSE,
                       !.pending_context_switch_interaction = None],
              events |-> <<>>,
              ctx |-> unwrap(a),
              interaction |-> m1.pending_context_switch_interaction]

\* "Unexpected instrumentation and/or corrupt data" / "Normal event on the
\* active context"
normal_event(m, name) ==
    LET m1 == IF name \in {Some(TASK_ENTER), Some(ISR_ENTER)}
              THEN LET d == alloc_context([m EXCEPT !.cfg.rtos_mode = "None"],
                                          UNKNOWN_CONTEXT)
                   IN  [d EXCEPT
                          !.context_stack = Append(@, context_id(UNKNOWN_CONTEXT)),
                          !.pending_context_switch_interaction = None]
              ELSE m
        a == active_context(m1)
    IN  IF is_none(a) \/ is_none(timeline_meta(m1, unwrap(a)))
        THEN ArmErr(m1)
        ELSE [ok |-> TRUE,
              m |-> [m1 EXCEPT
                       !.contexts_to_timelines[unwrap(a)].requires_synthetic_interaction_event = FALSE,
                       !.pending_context_switch_interaction = None],
              events |-> <<>>,
              ctx |-> unwrap(a),
              interaction |-> m1.pending_context_switch_interaction]

\* process_rtic1's match on (event name, task or ISR name)
context_switch(m, ev) ==
    LET name == event_name(ev)
        task_or_isr_name == IF is_some(task_name(ev)) THEN task_name(ev) ELSE isr_name(ev)
    IN  IF name \in {Some(TASK_ENTER), Some(ISR_ENTER)} /\ is_some(task_or_isr_name)
        THEN context_enter(m, ev, unwrap(task_or_isr_name))
        ELSE IF name \in {Some(TASK_EXIT), Some(ISR_EXIT)}
        THEN context_exit(m)
        ELSE IF name = Some(TRACE_START) /\ is_some(task_or_isr_name)
                /\ m.event_counter = 1
        THEN start_event(m, ev, unwrap(task_or_isr_name))
        ELSE normal_event(m, name)

\* The tail of process_rtic1: the nonce and the interaction are stamped on
\* the record and the record is added after the synthetic events.
\* A plausible slip: the record's own event is put before the synthetic one.
stamp_event_synthetic_last(arm, ev) ==
    LET m1 == [arm.m EXCEPT !.contexts_to_timelines[arm.ctx] = increment_nonce(@)]
        ev1 == add_internal_nonce(ev, m1.contexts_to_timelines[arm.ctx].nonce)
        ev2 == IF is_some(arm.interaction)
               THEN add_interaction(ev1, ~m1.cfg.disable_interactions,
                                    unwrap(arm.interaction)[2], unwrap(arm.interaction)[3])
               ELSE ev1
        add_previous_event_nonce ==
            IF is_some(arm.interaction) THEN ~m1.cfg.disable_interactions ELSE FALSE
    IN  IF is_none(timeline_meta(arm.m, arm.ctx))
        THEN Err(arm.m)
        ELSE [ok |-> TRUE,
              m |-> m1,
              events |-> <<ContextEvent(arm.ctx, m1.global_ordering, ev2,
                                        add_previous_event_nonce)>> \o arm.events]

stamp_event(arm, ev) ==
    LET m1 == [arm.m EXCEPT !.contexts_to_timelines[arm.ctx] = increment_nonce(@)]
        ev1 == add_internal_nonce(ev, m1.contexts_to_timelines[arm.ctx].nonce)
        ev2 == IF is_some(arm.interaction)
               THEN add_interaction(ev1, ~m1.cfg.disable_interactions,
                                    unwrap(arm.interaction)[2], unwrap(arm.interaction)[3])
               ELSE ev1
        add_previous_event_nonce ==
            IF is_some(arm.interaction) THEN ~m1.cfg.disable_interactions ELSE FALSE
    IN  IF is_none(timeline_meta(arm.m, arm.ctx))
        THEN Err(arm.m)
        ELSE [ok |-> TRUE,
              m |-> m1,
              events |-> Append(arm.events,
                                ContextEvent(arm.ctx, m1.global_ordering, ev2,
                                             add_previous_event_nonce))]

process_rtic1(m, ev) ==
    IF m.event_counter = 1 /\ is_none(m.integration_version) /\ ~start_event_valid(ev)
    THEN fallback_context(m, ev)
    ELSE LET arm == context_switch(m, ev)
         IN  IF arm.ok THEN stamp_event(arm, ev) ELSE Err(arm.m)

\* A plausible slip: the record is stamped without the increment.
process_vanilla_without_increment(m, ev) ==
    LET ctx_name == IF is_some(m.cfg.init_task_name)
                    THEN unwrap(m.cfg.init_task_name)
                    ELSE DEFAULT_SINGLE_TIMELINE_CONTEXT_NAME
        m1 == IF m.event_counter = 1
              THEN [alloc_context(m, ctx_name) EXCEPT
                      !.context_stack = Append(@, context_id(ctx_name))]
              ELSE m
        a == active_context(m1)
    IN  IF is_none(a) \/ is_none(timeline_meta(m1, unwrap(a)))
        THEN Err(m1)
        ELSE [ok |-> TRUE,
              m |-> m1,
              events |-> <<ContextEvent(
                             unwrap(a), m1.global_ordering,
                             add_internal_nonce(ev, m1.contexts_to_timelines[unwrap(a)].nonce),
                             FALSE)>>]

\* process_record, "Vanilla mode, all events on a single timeline"
process_vanilla(m, ev) ==
    LET ctx_name == IF is_some(m.cfg.init_task_name)
                    THEN unwrap(m.cfg.init_task_name)
                    ELSE DEFAULT_SINGLE_TIMELINE_CONTEXT_NAME
        m1 == IF m.event_counter = 1
              THEN [alloc_context(m, ctx_name) EXCEPT
                      !.context_stack = Append(@, context_id(ctx_name))]
              ELSE m
        a == active_context(m1)
        m2 == [m1 EXCEPT !.contexts_to_timelines[unwrap(a)] = increment_nonce(@)]
    IN  IF is_none(a) \/ is_none(timeline_meta(m1, unwrap(a)))
        THEN Err(m1)
        ELSE [ok |-> TRUE,
              m |-> m2,
              events |-> <<ContextEvent(
                             unwrap(a), m2.global_ordering,
                             add_internal_nonce(ev, m2.contexts_to_timelines[unwrap(a)].nonce),
                             FALSE)>>]

process_record(m, ev0) ==
    LET m1 == [m EXCEPT
                 !.global_ordering = saturating_add_u128(@),
                 !.event_counter = saturating_add_u64(@),
                 !.last_timestamp = IF is_some(timestamp_raw(ev0))
                                    THEN timestamp_raw(ev0)
                                    ELSE @]
        ev == insert_attr(ev0, internal_attr_key(<<"event_counter">>),
                          Integer(m1.event_counter))
    IN  IF m1.cfg.rtos_mode = "Rtic1" THEN process_rtic1(m1, ev) ELSE process_vanilla(m1, ev)

(***************************************************************************)
(* Inputs: the event records the builder hands to the manager.  They are   *)
(* the records of the manager's unit test (trace_start, isr_enter,         *)
(* task_enter, exits, a plain event) and their defective variants.         *)
(***************************************************************************)
with_timestamp(attrs, ts) ==
    map_insert(
        map_insert(attrs, internal_attr_key(<<"timestamp">>), BigInt(ts)),
        attr_key(<<"timestamp">>), Timestamp(ts * 1000))

trace_start ==
    with_timestamp(
        from_iter({<<attr_key(<<"name">>), String(TRACE_START)>>,
                   <<attr_key(<<"task">>), String("init")>>,
                   <<attr_key(<<"version">>), Integer(1)>>}), 1)

trace_start_without_version ==
    from_iter({<<attr_key(<<"name">>), String(TRACE_START)>>,
               <<attr_key(<<"task">>), String("init")>>})

\* The name of the initial context under event.isr instead of event.task
trace_start_without_task ==
    from_iter({<<attr_key(<<"name">>), String(TRACE_START)>>,
               <<attr_key(<<"isr">>), String("init")>>,
               <<attr_key(<<"version">>), Integer(1)>>})

isr_enter ==
    with_timestamp(
        from_iter({<<attr_key(<<"name">>), String(ISR_ENTER)>>,
                   <<attr_key(<<"isr">>), String("ISR")>>}), 2)

task_enter ==
    from_iter({<<attr_key(<<"name">>), String(TASK_ENTER)>>,
               <<attr_key(<<"task">>), String("task")>>})

\* A context enter whose task name is not a string
task_enter_without_name ==
    from_iter({<<attr_key(<<"name">>), String(TASK_ENTER)>>,
               <<attr_key(<<"task">>), Integer(7)>>})

isr_exit == from_iter({<<attr_key(<<"name">>), String(ISR_EXIT)>>})

task_exit ==
    with_timestamp(from_iter({<<attr_key(<<"name">>), String(TASK_EXIT)>>}), 1)

event_foo == from_iter({<<attr_key(<<"name">>), String("foo")>>})

Records ==
    {trace_start, trace_start_without_version, trace_start_without_task,
     isr_enter, task_enter, task_enter_without_name, isr_exit, task_exit,
     event_foo}

\* The plugin configurations: both modes, interactions on and off, the
\* initial task unnamed or named like an entered task.
Configs ==
    [rtos_mode : {"None", "Rtic1"},
     init_task_name : {None, Some("task")},
     disable_interactions : BOOLEAN]

\* The common timeline attributes run() builds before the read loop.
CommonTimelineAttrs ==
    from_iter({<<timeline_attr_key(<<"run_id">>), Integer(1)>>,
               <<timeline_attr_key(<<"clock_style">>), String("relative")>>})

\* A for loop of common_timeline_attrs.insert(kv.0.to_string(), kv.1.clone())
\* over a configured list: the keys go in as configured.
insert_all(attrs, kvs) ==
    [k \in DOMAIN attrs \cup DOMAIN kvs |-> IF k \in DOMAIN kvs THEN kvs[k] ELSE attrs[k]]

\* run()'s common_timeline_attrs for the configured TimelineAttributes: the
\* additional list, then the plugin's own attributes, then the override list.
build_common_timeline_attrs(timeline_attributes) ==
    insert_all(
        insert_all(
            insert_all(EmptyAttrs, timeline_attributes.additional_timeline_attributes),
            CommonTimelineAttrs),
        timeline_attributes.override_timeline_attributes)

\* The configured timeline attributes: none; an additional key without a
\* prefix and an override of a plugin attribute; an override without a prefix.
TimelineAttributeConfigs ==
    {[additional_timeline_attributes |-> EmptyAttrs,
      override_timeline_attributes |-> EmptyAttrs],
     [additional_timeline_attributes |-> from_iter({<<<<"ci_run">>, Integer(1)>>}),
      override_timeline_attributes |->
          from_iter({<<timeline_attr_key(<<"clock_style">>), String("absolute")>>})],
     [additional_timeline_attributes |-> EmptyAttrs,
      override_timeline_attributes |-> from_iter({<<<<"name">>, String("board")>>})]}

(***************************************************************************)
(* Text.  A string the builder takes apart is a sequence of tokens: each   *)
(* separator the code looks for ("::", ",", "=", ".", ":", "{", "}", "/",  *)
(* a space, a newline) is a token of its own, and so is every run of       *)
(* other characters.  to_string gives the string a text spells.            *)
(***************************************************************************)
RECURSIVE to_string(_)
to_string(s) == IF s = <<>> THEN "" ELSE Head(s) \o to_string(Tail(s))

\* str::find and str::rfind from position i: the index of the token, or 0
RECURSIVE find(_, _, _)
find(s, pat, i) ==
    IF i > Len(s) THEN 0 ELSE IF s[i] = pat THEN i ELSE find(s, pat, i + 1)

RECURSIVE rfind(_, _, _)
rfind(s, pat, i) ==
    IF i = 0 THEN 0 ELSE IF s[i] = pat THEN i ELSE rfind(s, pat, i - 1)

split_once(s, pat) ==
    LET i == find(s, pat, 1)
    IN  IF i = 0 THEN None ELSE Some(<<SubSeq(s, 1, i - 1), SubSeq(s, i + 1, Len(s))>>)

rsplit_once(s, pat) ==
    LET i == rfind(s, pat, Len(s))
    IN  IF i = 0 THEN None ELSE Some(<<SubSeq(s, 1, i - 1), SubSeq(s, i + 1, Len(s))>>)

RECURSIVE split(_, _)
split(s, pat) ==
    LET i == find(s, pat, 1)
    IN  IF i = 0
        THEN <<s>>
        ELSE <<SubSeq(s, 1, i - 1)>> \o split(SubSeq(s, i + 1, Len(s)), pat)

RECURSIVE trim_start_matches(_, _)
trim_start_matches(s, pats) ==
    IF s /= <<>> /\ Head(s) \in pats THEN trim_start_matches(Tail(s), pats) ELSE s

RECURSIVE trim_end_matches(_, _)
trim_end_matches(s, pats) ==
    IF s /= <<>> /\ s[Len(s)] \in pats
    THEN trim_end_matches(SubSeq(s, 1, Len(s) - 1), pats)
    ELSE s

WhiteSpace == {" ", "\n"}

trim(s) == trim_end_matches(trim_start_matches(s, WhiteSpace), WhiteSpace)

replace(s, from, to) == [i \in 1..Len(s) |-> IF s[i] = from THEN to ELSE s[i]]

\* The key a text names, as the sequence of its dot-separated segments.
RECURSIVE strings(_)
strings(pieces) ==
    IF pieces = <<>> THEN <<>> ELSE <<to_string(Head(pieces))>> \o strings(Tail(pieces))

key_of(s) == strings(split(s, "."))

(***************************************************************************)
(* EventRecord::from_frame (src/src/event_record.rs).  The frame comes     *)
(* from the stream decoder: its format string already cut into fragments   *)
(* by defmt_parser::parse (None when it does not parse), its arguments,    *)
(* its timestamp format and arguments, its level and table index, and the  *)
(* string format_args displays for it.                                     *)
(***************************************************************************)
Frame(fragments, args, formatted, timestamp_format, timestamp_args, level, index) ==
    [fragments |-> fragments, args |-> args, formatted |-> formatted,
     timestamp_format |-> timestamp_format, timestamp_args |-> timestamp_args,
     level |-> level, index |-> index]

Location(file, line, module) == [file |-> file, line |-> line, module |-> module]

Literal(l) == [kind |-> "Literal", l |-> l, ty |-> "", index |-> 0]
Parameter(ty, index) == [kind |-> "Parameter", l |-> <<>>, ty |-> ty, index |-> index]

\* defmt_decoder::Arg
Arg_Bool(v) == <<"Bool", v>>
Arg_Uxx(v) == <<"Uxx", v>>
Arg_Ixx(v) == <<"Ixx", v>>
Arg_Str(v) == <<"Str", v>>
Arg_Slice(v) == <<"Slice", v>>
Arg_Format(args) == <<"Format", args>>

I128_MAX == (U128_MAX - 1) \div 2
I128_MIN == 0 - I128_MAX - 1

\* `v as i128` of a u128: the value modulo 2^128, read as signed
as_i128(v) == IF v > I128_MAX THEN (v - U128_MAX) - 1 ELSE v

\* BigInt::new_attr_val: an Integer when the value fits i64, else a BigInt
BigInt_new_attr_val(big_i) ==
    IF big_i < I64_MIN \/ big_i > I64_MAX THEN BigInt(big_i) ELSE Integer(big_i)

RECURSIVE arg_to_attr_val(_)
arg_to_attr_val(arg) ==
    CASE arg[1] = "Bool" -> Some(Bool(arg[2]))
      [] arg[1] = "Uxx" -> Some(BigInt_new_attr_val(as_i128(arg[2])))
      [] arg[1] = "Ixx" -> Some(BigInt_new_attr_val(arg[2]))
      [] arg[1] = "Str" -> Some(String(to_string(replace(arg[2], "\n", " "))))
      [] arg[1] = "Format" ->
            IF Len(arg[2]) = 1 THEN arg_to_attr_val(arg[2][1]) ELSE None
      [] OTHER -> None

\* The decimal numbers the texts of the model spell.
Numerals == {<<"0", 0>>, <<"1", 1>>, <<"12", 12>>}

\* val_str.parse::<AttrVal>(): a number, a boolean, else the string
parse_attr_val(val_str) ==
    LET s == to_string(val_str)
    IN  IF \E n \in Numerals : n[1] = s
        THEN Integer((CHOOSE n \in Numerals : n[1] = s)[2])
        ELSE IF s \in {"true", "false"} THEN Bool(s = "true")
        ELSE String(s)

RECURSIVE trim_all(_)
trim_all(parts) ==
    IF parts = <<>> THEN <<>> ELSE <<trim(Head(parts))>> \o trim_all(Tail(parts))

\* The loop of extract_literal_key_value_pairs over the pairs left.
RECURSIVE extract_pairs(_, _)
extract_pairs(possible_pairs, pairs) ==
    IF possible_pairs = <<>>
    THEN pairs
    ELSE LET parts == trim_all(split(trim(Head(possible_pairs)), "="))
         IN  IF \/ Len(parts) /= 2
                \/ parts[1] = <<>>
                \/ parts[2] = <<>>
                \/ parts[1][1] = "."
             THEN extract_pairs(Tail(possible_pairs), pairs)
             ELSE extract_pairs(Tail(possible_pairs),
                                map_insert(pairs, parts[1], parse_attr_val(parts[2])))

extract_literal_key_value_pairs(s) == extract_pairs(split(s, ","), EmptyAttrs)

\* enum Timestamp
Micros(v) == <<"Micros", v>>
Millis(v) == <<"Millis", v>>
Seconds(v) == <<"Seconds", v>>
Ticks(v) == <<"Ticks", v>>

\* u64::try_from of the u128 or i128 the argument holds
ts_from_arg(arg) ==
    IF arg[1] \in {"Uxx", "Ixx"} /\ arg[2] >= 0 /\ arg[2] <= U64_MAX
    THEN Some(arg[2])
    ELSE None

\* A plausible slip: a hint the builder does not know is taken as no hint.
Timestamp_from_frame_any_hint(f) ==
    LET fmt == unwrap(f.timestamp_format)
        ts == ts_from_arg(f.timestamp_args[1])
        split_fmt == rsplit_once(trim_end_matches(fmt, {"}"}), ":")
        ts_fmt == IF is_some(split_fmt) THEN Some(to_string(unwrap(split_fmt)[2])) ELSE None
    IN  IF is_none(f.timestamp_format) THEN None
        ELSE IF Len(f.timestamp_args) /= 1 THEN None
        ELSE IF is_none(ts) THEN None
        ELSE IF ts_fmt \in {Some("us"), Some("tus")} THEN Some(Micros(unwrap(ts)))
        ELSE IF ts_fmt \in {Some("ms"), Some("tms")} THEN Some(Millis(unwrap(ts)))
        ELSE IF ts_fmt = Some("ts") THEN Some(Seconds(unwrap(ts)))
        ELSE Some(Ticks(unwrap(ts)))

Timestamp_from_frame(f) ==
    LET fmt == unwrap(f.timestamp_format)
        ts == ts_from_arg(f.timestamp_args[1])
        split_fmt == rsplit_once(trim_end_matches(fmt, {"}"}), ":")
        ts_fmt == IF is_some(split_fmt) THEN Some(to_string(unwrap(split_fmt)[2])) ELSE None
    IN  IF is_none(f.timestamp_format) THEN None
        ELSE IF Len(f.timestamp_args) /= 1 THEN None
        ELSE IF is_none(ts) THEN None
        ELSE IF ts_fmt \in {Some("us"), Some("tus")} THEN Some(Micros(unwrap(ts)))
        ELSE IF ts_fmt \in {Some("ms"), Some("tms")} THEN Some(Millis(unwrap(ts)))
        ELSE IF ts_fmt = Some("ts") THEN Some(Seconds(unwrap(ts)))
        ELSE IF is_some(ts_fmt) THEN None
        ELSE Some(Ticks(unwrap(ts)))

as_u64(ts) == ts[2]

\* A plausible slip: the product saturates instead of being dropped.
saturating_mul(v, k) == IF v > U64_MAX \div k THEN Some(U64_MAX) ELSE Some(v * k)

\* u64::checked_mul
checked_mul(v, k) == IF v > U64_MAX \div k THEN None ELSE Some(v * k)

as_nanoseconds(ts) ==
    LET ns == CASE ts[1] = "Micros" -> checked_mul(ts[2], 1000)
                [] ts[1] = "Millis" -> checked_mul(ts[2], 1000000)
                [] ts[1] = "Seconds" -> checked_mul(ts[2], 1000000000)
                [] OTHER -> None
    IN  IF is_some(ns) THEN Some(Timestamp(unwrap(ns))) ELSE None

typ_str(ts) ==
    CASE ts[1] = "Micros" -> "us"
      [] ts[1] = "Millis" -> "ms"
      [] ts[1] = "Seconds" -> "s"
      [] OTHER -> "ticks"

DeviantEventNames ==
    {"modality.mutator.announced", "modality.mutator.retired",
     "modality.mutation.command_communicated", "modality.mutation.clear_communicated",
     "modality.mutation.triggered", "modality.mutation.injected"}

DeviantEventKind_from_event_name(ev_name) ==
    IF ev_name \in DeviantEventNames THEN Some(ev_name) ELSE None

\* Bytes are scaled to digits of this radix, so that the integer of sixteen
\* of them stays within the integers of the model checker.
ByteRadix == 2

UuidLen == 16

\* iN::from_le_bytes over sixteen bytes
RECURSIVE le_sum(_)
le_sum(bytes) == IF bytes = <<>> THEN 0 ELSE Head(bytes) + ByteRadix * le_sum(Tail(bytes))

from_le_bytes(bytes) ==
    IF bytes[Len(bytes)] >= (ByteRadix + 1) \div 2
    THEN le_sum(bytes) - ByteRadix ^ Len(bytes)
    ELSE le_sum(bytes)

\* Uuid::try_from(Vec<u8>): Ok for sixteen bytes
Uuid_try_from(bytes) == IF Len(bytes) = UuidLen THEN Some(bytes) ELSE None

\* i128::from_le_bytes(*u.as_bytes()).into()
uuid_to_integer_attr_val(u) == BigInt_new_attr_val(from_le_bytes(u))

\* The Fragment::Literal arm; `st` is the state of the loop.
literal_fragment(st, l, frag_idx) ==
    LET named == IF frag_idx = 0 THEN split_once(l, "::") ELSE None
        ev_name == to_string(trim(unwrap(named)[1]))
        st1 == IF is_some(named)
               THEN [st EXCEPT !.deviant_event = DeviantEventKind_from_event_name(ev_name),
                               !.name = Some(ev_name)]
               ELSE st
        s == IF is_some(named) THEN unwrap(named)[2] ELSE l
        pairs == extract_literal_key_value_pairs(s)
        attributes == [k \in DOMAIN st.attributes \cup {attr_key(key_of(p)) : p \in DOMAIN pairs} |->
                          IF \E p \in DOMAIN pairs : attr_key(key_of(p)) = k
                          THEN pairs[CHOOSE p \in DOMAIN pairs : attr_key(key_of(p)) = k]
                          ELSE st.attributes[k]]
        s1 == trim_start_matches(s, {","})
        s2 == IF is_some(rsplit_once(s1, ",")) THEN unwrap(rsplit_once(s1, ","))[2] ELSE s1
        k == split_once(s2, "=")
    IN  [st1 EXCEPT !.attributes = attributes,
                    !.pending_attr_key = IF is_some(k) THEN Some(trim(unwrap(k)[1])) ELSE @]

\* A plausible slip: a byte slice is taken as a UUID whatever the event.
deviant_uuid_any_event(attributes, deviant_event, key, arg) ==
    IF arg[1] = "Slice" /\ is_some(Uuid_try_from(arg[2]))
    THEN map_insert(attributes, attr_key(key_of(key)),
                    uuid_to_integer_attr_val(unwrap(Uuid_try_from(arg[2]))))
    ELSE attributes

\* The `None` arms of the match on arg_to_attr_val: the UUID slices of a
\* deviant event.
deviant_uuid(attributes, deviant_event, key, arg) ==
    IF is_none(deviant_event) THEN attributes
    ELSE IF to_string(key) \in {"mutator.id", "mutation.id"}
    THEN IF arg[1] = "Slice"
         THEN IF is_some(Uuid_try_from(arg[2]))
              THEN map_insert(attributes, attr_key(key_of(key)),
                              uuid_to_integer_attr_val(unwrap(Uuid_try_from(arg[2]))))
              ELSE attributes
         ELSE attributes
    ELSE attributes

\* The Fragment::Parameter arm.
parameter_fragment(st, p, args) ==
    LET key == replace(unwrap(st.pending_attr_key), " ", "_")
        key_type == key \o <<".", "type">>
        attributes == map_insert(st.attributes, internal_attr_key(key_of(key_type)),
                                 String(p.ty))
        arg == args[p.index + 1]
        val == arg_to_attr_val(arg)
    IN  IF is_none(st.pending_attr_key)
        THEN st
        ELSE [st EXCEPT
                !.pending_attr_key = None,
                !.attributes =
                    IF is_some(val)
                    THEN map_insert(attributes, attr_key(key_of(key)), unwrap(val))
                    ELSE deviant_uuid(attributes, st.deviant_event, key, arg)]

\* The loop over the fragments left, the first of them at index frag_idx.
RECURSIVE fragments_loop(_, _, _, _)
fragments_loop(st, fragments, frag_idx, args) ==
    IF fragments = <<>>
    THEN st
    ELSE LET frag == Head(fragments)
         IN  fragments_loop(
                 IF frag.kind = "Literal"
                 THEN literal_fragment(st, frag.l, frag_idx)
                 ELSE parameter_fragment(st, frag, args),
                 Tail(fragments), frag_idx + 1, args)

\* The timestamp attributes of from_frame.
timestamp_attrs(attributes, f) ==
    LET ts == Timestamp_from_frame(f)
        a1 == map_insert(attributes, internal_attr_key(<<"timestamp", "type">>),
                         String(typ_str(unwrap(ts))))
        a2 == map_insert(a1, internal_attr_key(<<"timestamp">>),
                         BigInt_new_attr_val(as_u64(unwrap(ts))))
        ns == as_nanoseconds(unwrap(ts))
    IN  IF is_none(ts) THEN attributes
        ELSE IF is_some(ns) THEN map_insert(a2, attr_key(<<"timestamp">>), unwrap(ns))
        ELSE a2

location_attrs(attributes, location) ==
    LET loc == unwrap(location)
    IN  IF is_none(location)
        THEN attributes
        ELSE insert_all(attributes,
                 from_iter({<<attr_key(<<"source", "file">>), String(loc.file)>>,
                            <<attr_key(<<"source", "line">>), Integer(loc.line)>>,
                            <<attr_key(<<"source", "module">>), String(loc.module)>>,
                            <<attr_key(<<"source", "uri">>),
                              String("file://" \o loc.file \o ":" \o ToString(loc.line))>>}))

\* Ok(record) as Some(record), Err(DefmtParser) as None.
from_frame(f, location) ==
    LET formatted_string == to_string(replace(f.formatted, "\n", " "))
        a1 == timestamp_attrs(EmptyAttrs, f)
        a2 == location_attrs(a1, location)
        a3 == IF is_some(f.level)
              THEN map_insert(a2, attr_key(<<"level">>), String(unwrap(f.level)))
              ELSE a2
        a4 == map_insert(a3, internal_attr_key(<<"table_index">>), Integer(f.index))
        a5 == map_insert(a4, internal_attr_key(<<"formatted_string">>),
                         String(formatted_string))
        st == fragments_loop(
                  [attributes |-> a5, name |-> None, pending_attr_key |-> None,
                   deviant_event |-> None],
                  unwrap(f.fragments), 0, f.args)
    IN  IF is_none(f.fragments)
        THEN None
        ELSE Some(map_insert(st.attributes, attr_key(<<"name">>),
                             String(IF is_some(st.name)
                                    THEN unwrap(st.name)
                                    ELSE formatted_string)))

(***************************************************************************)
(* Client (src/src/client.rs): the two key maps and, as `inner`, the calls *)
(* made on the ingest client, which are taken to succeed.                  *)
(***************************************************************************)
Client_new == [timeline_keys |-> EmptyAttrs, event_keys |-> EmptyAttrs, inner |-> <<>>]

\* s.starts_with("timeline.") / s.starts_with("event."), on segmented keys
starts_with(k, prefix) == Len(k) >= 2 /\ k[1] = prefix

normalize_timeline_key(k) ==
    IF starts_with(k, "timeline") THEN k ELSE <<"timeline">> \o k

normalize_event_key(k) ==
    IF starts_with(k, "event") THEN k ELSE <<"event">> \o k

\* The keys of the model as a BTreeMap<String, _> iterates them: in byte
\* order of the dotted strings.
KeyOrder ==
    <<<<"ci_run">>,
      <<"event", "internal", "defmt", "nonce">>,
      <<"event", "name">>,
      <<"name">>,
      <<"timeline", "name">>>>

iter(attrs) == SelectSeq(KeyOrder, LAMBDA k : k \in DOMAIN attrs)

\* inner.declare_attr_key(key): the ingest client hands out the next
\* identifier at every declaration.
declare_attr_key(inner, key) ==
    LET ik == Cardinality({i \in 1..Len(inner) : inner[i].op = "declare_attr_key"}) + 1
    IN  [inner |-> Append(inner, [op |-> "declare_attr_key", key |-> key, id |-> ik]),
         ik |-> ik]

\* The loop of switch_timeline without the lookup in timeline_keys: every
\* key is declared.
RECURSIVE intern_timeline_attrs_redeclaring(_, _, _, _)
intern_timeline_attrs_redeclaring(c, attrs, keys, interned_attrs) ==
    IF keys = <<>>
    THEN [client |-> c, interned_attrs |-> interned_attrs]
    ELSE LET key == normalize_timeline_key(Head(keys))
             d == declare_attr_key(c.inner, key)
         IN  intern_timeline_attrs_redeclaring(
                 [c EXCEPT !.inner = d.inner,
                           !.timeline_keys = map_insert(@, key, d.ik)],
                 attrs, Tail(keys),
                 Append(interned_attrs, <<d.ik, attrs[Head(keys)]>>))

\* The loop of switch_timeline over the attributes left in `keys`;
\* `interned_attrs` is the list built so far.
RECURSIVE intern_timeline_attrs(_, _, _, _)
intern_timeline_attrs(c, attrs, keys, interned_attrs) ==
    IF keys = <<>>
    THEN [client |-> c, interned_attrs |-> interned_attrs]
    ELSE LET key == normalize_timeline_key(Head(keys))
             d == declare_attr_key(c.inner, key)
         IN  IF key \in DOMAIN c.timeline_keys
             THEN intern_timeline_attrs(
                      c, attrs, Tail(keys),
                      Append(interned_attrs, <<c.timeline_keys[key], attrs[Head(keys)]>>))
             ELSE intern_timeline_attrs(
                      [c EXCEPT !.inner = d.inner,
                                !.timeline_keys = map_insert(@, key, d.ik)],
                      attrs, Tail(keys),
                      Append(interned_attrs, <<d.ik, attrs[Head(keys)]>>))

switch_timeline(c, id, new_timeline_attrs) ==
    LET c1 == [c EXCEPT !.inner = Append(@, [op |-> "open_timeline", id |-> id])]
        r == intern_timeline_attrs(c1, unwrap(new_timeline_attrs),
                                   iter(unwrap(new_timeline_attrs)), <<>>)
    IN  IF is_none(new_timeline_attrs)
        THEN c1
        ELSE [r.client EXCEPT
                !.inner = Append(@, [op |-> "timeline_metadata",
                                     attrs |-> r.interned_attrs])]

\* The loop of send_event over the attributes left in `keys`: the key is
\* looked up in timeline_keys and, when absent, declared and stored in
\* event_keys.
RECURSIVE intern_event_attrs(_, _, _, _)
intern_event_attrs(c, attrs, keys, interned_attrs) ==
    IF keys = <<>>
    THEN [client |-> c, interned_attrs |-> interned_attrs]
    ELSE LET key == normalize_event_key(Head(keys))
             d == declare_attr_key(c.inner, key)
         IN  IF key \in DOMAIN c.timeline_keys
             THEN intern_event_attrs(
                      c, attrs, Tail(keys),
                      Append(interned_attrs, <<c.timeline_keys[key], attrs[Head(keys)]>>))
             ELSE intern_event_attrs(
                      [c EXCEPT !.inner = d.inner,
                                !.event_keys = map_insert(@, key, d.ik)],
                      attrs, Tail(keys),
                      Append(interned_attrs, <<d.ik, attrs[Head(keys)]>>))

send_event(c, ordering, attrs) ==
    LET r == intern_event_attrs(c, attrs, iter(attrs), <<>>)
    IN  [r.client EXCEPT
           !.inner = Append(@, [op |-> "event", ordering |-> ordering,
                                attrs |-> r.interned_attrs])]

(***************************************************************************)
(* State.                                                                  *)
(***************************************************************************)
VARIABLES
    plugin_cfg,          \* the PluginConfig the manager was constructed with
    ctx_mngr,            \* the ContextManager
    pc,                  \* the driver's position in run()
    intr,                \* the Interruptor flag
    maybe_read_result,   \* run()'s saved read error
    buffered_event,      \* the one-slot look-ahead buffer
    observed_timelines,  \* timeline ids already declared to the client
    events_iter,         \* what is left of `ctx.events` in the for loop
    client_log,          \* the calls the ingest client has accepted
    result,              \* what run() returned, once it has
    malformed,           \* Malformed reports so far
    call,                \* history: the last process_record call
    emitted,             \* history: every ContextEvent emitted, summarised
    produced,            \* history: every ContextEvent the driver was handed
    client,              \* the Client: its key maps and its ingest client's calls
    frame,               \* the decoded frame the record builder is given
    built,               \* what the record builder made of it
    rate_in,             \* the input Rate::new or Rate::from_str is given
    rate,                \* what it returned
    rtt,                 \* the RTT reader, the session lock and the interruptor
    instant              \* a TrackingInstant and the readings it was given

vars ==
    <<instant, rate_in, rate, rtt, frame, built, client, plugin_cfg, ctx_mngr, pc, intr, maybe_read_result, buffered_event,
      observed_timelines, events_iter, client_log, result, malformed, call, emitted, produced>>

driver_vars ==
    <<pc, intr, maybe_read_result, buffered_event, observed_timelines,
      events_iter, client_log, result, malformed, produced>>

is_synthetic(record) == <<"event", "internal", "defmt", "synthetic">> \in DOMAIN record

\* The keys EventRecord::add_interaction writes, user-visible or internal.
has_interaction(record) ==
    \E k \in {<<"interaction", "remote_timeline_id">>,
               <<"interaction", "remote_nonce">>} :
        attr_key(k) \in DOMAIN record \/ internal_attr_key(k) \in DOMAIN record

REMOTE_TIMELINE_ID == <<"event", "interaction", "remote_timeline_id">>

REMOTE_NONCE == <<"event", "interaction", "remote_nonce">>

INTERNAL_REMOTE_TIMELINE_ID ==
    <<"event", "internal", "defmt", "interaction", "remote_timeline_id">>

INTERNAL_REMOTE_NONCE == <<"event", "internal", "defmt", "interaction", "remote_nonce">>

\* The remote timeline id and remote nonce a record carries, under the
\* user-visible keys or the internal ones.
RemoteTimelineId(record) ==
    IF REMOTE_TIMELINE_ID \in DOMAIN record
    THEN record[REMOTE_TIMELINE_ID][2]
    ELSE record[INTERNAL_REMOTE_TIMELINE_ID][2]

RemoteNonce(record) ==
    IF REMOTE_NONCE \in DOMAIN record
    THEN record[REMOTE_NONCE][2]
    ELSE record[INTERNAL_REMOTE_NONCE][2]

\* What the histories keep of a ContextEvent.
Summary(e) ==
    [context |-> e.context,
     global_ordering |-> e.global_ordering,
     synthetic |-> is_synthetic(e.record),
     nonce |-> internal_nonce(e.record),
     event_counter |-> integer_attr(e.record, internal_attr_key(<<"event_counter">>)),
     interaction |-> has_interaction(e.record),
     remote |-> IF has_interaction(e.record)
                THEN Some(<<RemoteTimelineId(e.record), RemoteNonce(e.record)>>)
                ELSE None,
     add_previous_event_nonce |-> e.add_previous_event_nonce]

Summaries(events) == [i \in 1..Len(events) |-> Summary(events[i])]

\* A record the "Context enter" arm takes / an exit record.
is_context_enter(ev) ==
    /\ event_name(ev) \in {Some(TASK_ENTER), Some(ISR_ENTER)}
    /\ is_some(task_name(ev)) \/ is_some(isr_name(ev))

is_context_exit(ev) == event_name(ev) \in {Some(TASK_EXIT), Some(ISR_EXIT)}

\* An enter record that carries neither a string task nor a string isr.
is_nameless_enter(ev) ==
    /\ event_name(ev) \in {Some(TASK_ENTER), Some(ISR_ENTER)}
    /\ is_none(task_name(ev)) /\ is_none(isr_name(ev))

\* The history of one process_record(ev) call that took `m` to `res`.
CallOf(m, ev, res) ==
    [ok |-> res.ok,
     is_enter |-> is_context_enter(ev),
     is_exit |-> is_context_exit(ev),
     mode_before |-> m.cfg.rtos_mode,
     stack_before |-> m.context_stack,
     event_counter_before |-> m.event_counter,
     after_pop |-> IF is_some(call) THEN unwrap(call).popped ELSE FALSE,
     after_exit |-> IF is_some(call) THEN unwrap(call).is_exit ELSE FALSE,
     nameless_enter |-> is_nameless_enter(ev),
     entered |-> IF is_context_enter(ev)
                 THEN Some(context_id(unwrap(IF is_some(task_name(ev))
                                             THEN task_name(ev)
                                             ELSE isr_name(ev))))
                 ELSE None,
     downgraded |-> \/ is_some(call) /\ unwrap(call).downgraded
                    \/ /\ m.cfg.rtos_mode = "Rtic1"
                       /\ is_some(m.integration_version)
                       /\ is_nameless_enter(ev),
     started_invalid |-> IF is_some(call)
                         THEN unwrap(call).started_invalid
                         ELSE ~start_event_valid(ev),
     popped |-> Len(res.m.context_stack) < Len(m.context_stack),
     events |-> Summaries(res.events)]

(***************************************************************************)
(* The manager driven directly, as its unit test drives it.                *)
(***************************************************************************)
InitManager ==
    /\ plugin_cfg \in Configs
    /\ \E timeline_attributes \in TimelineAttributeConfigs :
          ctx_mngr = ContextManager_new(
                         plugin_cfg, build_common_timeline_attrs(timeline_attributes))
    /\ pc = "manager"
    /\ intr = FALSE
    /\ maybe_read_result = None
    /\ buffered_event = None
    /\ observed_timelines = {}
    /\ events_iter = <<>>
    /\ client_log = <<>>
    /\ result = None
    /\ malformed = 0
    /\ call = None
    /\ emitted = <<>>
    /\ produced = <<>>
    /\ client = Client_new
    /\ frame = None
    /\ built = None
    /\ rate_in = None
    /\ rate = None
    /\ instant = None
    /\ rtt = None

ProcessRecord ==
    /\ pc = "manager"
    /\ ctx_mngr.event_counter < MaxRecords
    /\ \E ev \in Records :
          LET res == process_record(ctx_mngr, ev)
          IN  /\ ctx_mngr' = res.m
              /\ call' = Some(CallOf(ctx_mngr, ev, res))
              /\ emitted' = emitted \o Summaries(res.events)
    /\ UNCHANGED driver_vars
    /\ UNCHANGED <<plugin_cfg, client, frame, built, rate_in, rate, rtt, instant>>

NextManager == ProcessRecord

SpecManager == InitManager /\ [][NextManager]_vars

(***************************************************************************)
(* The Client driven directly: any sequence of switch_timeline and         *)
(* send_event calls.                                                       *)
(***************************************************************************)
\* Calls made on the Client in one run.
MaxClientCalls == 3

\* Attribute maps of timelines: generated keys, and a configured key that
\* has no prefix.
TimelineAttrInputs ==
    {from_iter({<<timeline_attr_key(<<"name">>), String("task")>>}),
     from_iter({<<timeline_attr_key(<<"name">>), String("isr")>>,
                <<<<"ci_run">>, Integer(1)>>}),
     from_iter({<<timeline_attr_key(<<"name">>), String("idle")>>,
                <<<<"name">>, String("main")>>})}

\* Attribute maps of events.
EventAttrInputs ==
    {from_iter({<<attr_key(<<"name">>), String("foo")>>}),
     from_iter({<<attr_key(<<"name">>), String("bar")>>,
                <<internal_attr_key(<<"nonce">>), Integer(1)>>}),
     from_iter({<<<<"name">>, String("baz")>>})}

TimelineIds == {1, 2}

\* Calls the Client has completed: each ends with one open_timeline or event.
client_calls(c) ==
    Cardinality({i \in 1..Len(c.inner) : c.inner[i].op \in {"open_timeline", "event"}})

InitClient ==
    /\ plugin_cfg = [rtos_mode |-> "None", init_task_name |-> None,
                     disable_interactions |-> FALSE]
    /\ ctx_mngr = ContextManager_new(plugin_cfg, CommonTimelineAttrs)
    /\ pc = "client"
    /\ intr = FALSE
    /\ maybe_read_result = None
    /\ buffered_event = None
    /\ observed_timelines = {}
    /\ events_iter = <<>>
    /\ client_log = <<>>
    /\ result = None
    /\ malformed = 0
    /\ call = None
    /\ emitted = <<>>
    /\ produced = <<>>
    /\ client = Client_new
    /\ frame = None
    /\ built = None
    /\ rate_in = None
    /\ rate = None
    /\ instant = None
    /\ rtt = None

ClientSwitchTimeline ==
    /\ pc = "client"
    /\ client_calls(client) < MaxClientCalls
    /\ \E id \in TimelineIds :
       \E new_timeline_attrs \in {None} \cup {Some(a) : a \in TimelineAttrInputs} :
          client' = switch_timeline(client, id, new_timeline_attrs)
    /\ UNCHANGED driver_vars
    /\ UNCHANGED <<plugin_cfg, ctx_mngr, call, emitted, frame, built, rate_in, rate, rtt, instant>>

ClientSendEvent ==
    /\ pc = "client"
    /\ client_calls(client) < MaxClientCalls
    /\ \E attrs \in EventAttrInputs :
          client' = send_event(client, client_calls(client) + 1, attrs)
    /\ UNCHANGED driver_vars
    /\ UNCHANGED <<plugin_cfg, ctx_mngr, call, emitted, frame, built, rate_in, rate, rtt, instant>>

NextClient == ClientSwitchTimeline \/ ClientSendEvent

SpecClient == InitClient /\ [][NextClient]_vars

(***************************************************************************)
(* The record builder driven directly: a decoded frame is made into a      *)
(* record, which is then stamped and promoted as the manager and the       *)
(* driver do.                                                              *)
(***************************************************************************)
TimestampFormat(hint) == Some(<<"{", "=u64", ":", hint, "}">>)

\* Timestamp formats: none, one per known hint, an unknown hint, no hint.
TimestampFormats ==
    {None, Some(<<"{", "=u64", "}">>)}
        \cup {TimestampFormat(hint) : hint \in {"us", "tus", "ms", "tms", "ts", "iso8601ms"}}

\* Raw timestamps on either side of each overflow of the u64 product, and
\* one beyond u64.
TimestampValues ==
    {0, 1, 2, U64_MAX \div 1000000, U64_MAX \div 1000000 + 1,
     U64_MAX \div 1000, U64_MAX \div 1000 + 1, U64_MAX, U64_MAX + 1}

TimestampArgs ==
    {<<Arg_Uxx(v)>> : v \in TimestampValues}
        \cup {<<Arg_Ixx(2)>>, <<Arg_Ixx(0 - 1)>>, <<>>, <<Arg_Uxx(1), Arg_Uxx(2)>>,
              <<Arg_Str(<<"x">>)>>}

Body(fragments, args, formatted) ==
    [fragments |-> fragments, args |-> args, formatted |-> formatted]

hello == <<"Hello", ",", " ", "world!">>

\* The format strings of the tests of event_record.rs, and variants.
PlainBodies ==
    {Body(Some(<<Literal(hello)>>), <<>>, hello),
     Body(Some(<<Literal(<<"my_event", "::", " ", "some", " ", "foo", " ", "str", " ", "=", " ">>),
                 Parameter("str", 0),
                 Literal(<<",", " ", "bar_int", "=">>),
                 Parameter("u8", 1)>>),
          <<Arg_Str(<<"Hello", "\n", "there">>), Arg_Uxx(2)>>,
          <<"my_event", "\n", "Hello">>),
     Body(Some(<<Literal(<<"my_event", "::", "k0", ".", "k00", "=", "1", ",",
                           ".", "k1", "=", "1", ",", "k4", "=", "true", ",",
                           "nonce", "=", "12", ",", "k5", "=", "biz">>)>>),
          <<>>, <<"my_event">>),
     Body(Some(<<Literal(<<"FOO", "::", "task", "=", "blinky_blue", ",", "instant", "=">>),
                 Parameter("u64", 0),
                 Literal(<<",", "arg_cnt", "=", "0", ",", "queue_index", "=">>),
                 Parameter("u8", 1)>>),
          <<Arg_Uxx(U64_MAX), Arg_Uxx(1)>>, <<"FOO">>),
     Body(Some(<<Literal(<<"=">>), Parameter("u8", 0)>>), <<Arg_Uxx(1)>>, <<"=", "1">>),
     Body(Some(<<Literal(<<"x", "=">>), Parameter("bool", 0),
                 Literal(<<"late", "::", "k", "=", "1">>)>>),
          <<Arg_Bool(TRUE)>>, <<"x", "=", "true">>),
     Body(None, <<>>, <<"{", "=u8">>)}

\* An unsigned argument over the whole u128 range.
UnsignedBodies ==
    {Body(Some(<<Literal(<<"big", "::", "v", "=">>), Parameter("u128", 0)>>),
          <<Arg_Uxx(v)>>, <<"big">>) :
        v \in {0, I64_MAX, I64_MAX + 1, U64_MAX, I128_MAX, I128_MAX + 1, U128_MAX}}

\* Byte slices: sixteen bytes, fifteen bytes.
Slices ==
    {[i \in 1..UuidLen |-> 0],
     [i \in 1..UuidLen |-> IF i = 1 THEN 1 ELSE 0],
     [i \in 1..UuidLen |-> IF i = 2 THEN ByteRadix - 1 ELSE 0],
     [i \in 1..UuidLen |-> IF i = UuidLen THEN ByteRadix - 1 ELSE 0],
     [i \in 1..UuidLen |-> ByteRadix - 1],
     [i \in 1..(UuidLen - 1) |-> 1]}

\* A named event with one parameter: deviant names and others, the UUID
\* keys and another, slices and other arguments.
DeviantBodies ==
    {Body(Some(<<Literal(name \o <<"::", " ">> \o key \o <<"=">>), Parameter("[u8]", 0)>>),
          <<arg>>, name) :
        name \in {<<"modality", ".", "mutator", ".", "announced">>,
                  <<" ", "modality", ".", "mutation", ".", "injected">>,
                  <<"my_event">>},
        key \in {<<"mutator", ".", "id">>, <<"mutation", ".", "id">>, <<"payload">>},
        arg \in {Arg_Slice(b) : b \in Slices}
                    \cup {Arg_Format(<<Arg_Slice([i \in 1..UuidLen |-> 1])>>), Arg_Uxx(1)}}
        \cup
    {Body(Some(<<Literal(<<"mutator", ".", "id", "=">>), Parameter("[u8]", 0)>>),
          <<Arg_Slice(b)>>, <<"mutator", ".", "id", "=">>) : b \in Slices}

main_rs == Location("/foo/src/main.rs", 12, "bar")

\* The frames handed to from_frame, each with its location if any.
FrameInputs ==
    {[f |-> Frame(b.fragments, b.args, b.formatted, fmt, args, Some("info"), 0),
      location |-> Some(main_rs)] :
        b \in {Body(Some(<<Literal(hello)>>), <<>>, hello)},
        fmt \in TimestampFormats, args \in TimestampArgs}
        \cup
    {[f |-> Frame(b.fragments, b.args, b.formatted, fmt, <<Arg_Uxx(2)>>, None, 1),
      location |-> None] :
        b \in PlainBodies \cup UnsignedBodies \cup DeviantBodies,
        fmt \in {None, TimestampFormat("us")}}

\* The nonces a timeline stamps on a record.
NonceInputs == {1, I64_MIN}

\* What `built` keeps: the result of from_frame, the record
\* before the last operation, that operation, and how often the nonce was
\* promoted.
Built(res, before, last_op, promotions) ==
    [result |-> res, before |-> before, last_op |-> last_op,
     promotions |-> promotions]

InitRecord ==
    /\ plugin_cfg = [rtos_mode |-> "None", init_task_name |-> None,
                     disable_interactions |-> FALSE]
    /\ ctx_mngr = ContextManager_new(plugin_cfg, CommonTimelineAttrs)
    /\ pc = "record"
    /\ intr = FALSE
    /\ maybe_read_result = None
    /\ buffered_event = None
    /\ observed_timelines = {}
    /\ events_iter = <<>>
    /\ client_log = <<>>
    /\ result = None
    /\ malformed = 0
    /\ call = None
    /\ emitted = <<>>
    /\ produced = <<>>
    /\ client = Client_new
    /\ frame \in {Some(i) : i \in FrameInputs}
    /\ built = None
    /\ rate_in = None
    /\ rate = None
    /\ instant = None
    /\ rtt = None

FromFrame ==
    /\ pc = "record"
    /\ is_none(built)
    /\ built' = Some(Built(from_frame(unwrap(frame).f, unwrap(frame).location),
                            None, "from_frame", 0))
    /\ UNCHANGED <<frame, plugin_cfg, ctx_mngr, call, emitted, client, rate_in, rate, rtt, instant>>
    /\ UNCHANGED driver_vars

AddInternalNonce ==
    /\ pc = "record"
    /\ is_some(built)
    /\ is_some(unwrap(built).result)
    /\ unwrap(built).last_op = "from_frame"
    /\ \E nonce \in NonceInputs :
          built' = Some(Built(Some(add_internal_nonce(unwrap(unwrap(built).result), nonce)),
                               unwrap(built).result, "add_internal_nonce", 0))
    /\ UNCHANGED <<frame, plugin_cfg, ctx_mngr, call, emitted, client, rate_in, rate, rtt, instant>>
    /\ UNCHANGED driver_vars

MaxPromotions == 2

PromoteInternalNonce ==
    /\ pc = "record"
    /\ is_some(built)
    /\ is_some(unwrap(built).result)
    /\ unwrap(built).promotions < MaxPromotions
    /\ built' = Some(Built(Some(promote_internal_nonce(unwrap(unwrap(built).result))),
                            unwrap(built).result, "promote_internal_nonce",
                            unwrap(built).promotions + 1))
    /\ UNCHANGED <<frame, plugin_cfg, ctx_mngr, call, emitted, client, rate_in, rate, rtt, instant>>
    /\ UNCHANGED driver_vars

NextRecord == FromFrame \/ AddInternalNonce \/ PromoteInternalNonce

SpecRecord == InitRecord /\ [][NextRecord]_vars

(***************************************************************************)
(* The streaming driver: defmt_reader::run from "Starting read loop" on.   *)
(* The byte source, the stream decoder and the ingest client are external: *)
(* a read returns bytes, nothing (EOF) or an error; decode() returns a     *)
(* frame, UnexpectedEof or Malformed; a client call succeeds or fails.     *)
(***************************************************************************)
\* Frames decoded in one run.
MaxFrames == 4

\* The frames of a run: a start event with a timestamp, a task enter, an
\* interrupt exit, a plain event, and a frame whose format string
\* defmt_parser::parse rejects.
trace_start_frame ==
    Frame(Some(<<Literal(<<TRACE_START, "::", "version", "=", "1", ",",
                           "task", "=", "init">>)>>),
          <<>>, <<TRACE_START>>, TimestampFormat("us"), <<Arg_Uxx(1)>>, Some("info"), 0)

task_enter_frame ==
    Frame(Some(<<Literal(<<TASK_ENTER, "::", "task", "=", "task">>)>>),
          <<>>, <<TASK_ENTER>>, None, <<>>, Some("info"), 1)

isr_exit_frame ==
    Frame(Some(<<Literal(<<ISR_EXIT, "::">>)>>), <<>>, <<ISR_EXIT>>, None, <<>>,
          Some("info"), 2)

foo_frame == Frame(Some(<<Literal(<<"foo">>)>>), <<>>, <<"foo">>, None, <<>>, None, 3)

unparsed_frame == Frame(None, <<>>, <<"foo">>, None, <<>>, None, 4)

Frames == {trace_start_frame, task_enter_frame, isr_exit_frame, foo_frame, unparsed_frame}

\* The locations of the table's entries, when the ELF file has them all.
location_info == Some([index \in 0..4 |-> Location("/foo/src/main.rs", 12 + index, "bar")])

\* EventRecord::from_frame(frame, loc) of every frame of the run, with
\* `loc` the frame's entry of location_info.
frame_records ==
    [f \in Frames |->
        LET loc == IF is_some(location_info)
                   THEN Some(unwrap(location_info)[f.index])
                   ELSE None
        IN  from_frame(f, loc)]

Init ==
    /\ plugin_cfg \in Configs
    /\ plugin_cfg.init_task_name = None
    /\ ctx_mngr = ContextManager_new(plugin_cfg, CommonTimelineAttrs)
    /\ pc = "while"
    /\ intr = FALSE
    /\ maybe_read_result = None
    /\ buffered_event = None
    /\ observed_timelines = {}
    /\ events_iter = <<>>
    /\ client_log = <<>>
    /\ result = None
    /\ malformed = 0
    /\ call = None
    /\ emitted = <<>>
    /\ produced = <<>>
    /\ client = Client_new
    /\ frame = None
    /\ built = None
    /\ rate_in = None
    /\ rate = None
    /\ instant = None
    /\ rtt = None

\* The Interruptor is set from another thread.  run() reads the flag only in
\* the while condition, so the set is taken where it is next observed.
Interrupt ==
    /\ pc = "while"
    /\ ~intr
    /\ intr' = TRUE
    /\ UNCHANGED <<ctx_mngr, pc, maybe_read_result, buffered_event,
                   observed_timelines, events_iter, client_log, result, malformed, call, emitted, produced>>
    /\ UNCHANGED <<plugin_cfg, client, frame, built, rate_in, rate, rtt, instant>>

\* A plausible slip: the loop condition does not consult the flag.
WhileIgnoresInterrupt ==
    /\ pc = "while"
    /\ pc' = "read"
    /\ UNCHANGED <<ctx_mngr, intr, maybe_read_result, buffered_event,
                   observed_timelines, events_iter, client_log, result, malformed, call, emitted, produced>>
    /\ UNCHANGED <<plugin_cfg, client, frame, built, rate_in, rate, rtt, instant>>

\* while !intr.is_set()
WhileNotInterrupted ==
    /\ pc = "while"
    /\ pc' = IF intr THEN "flush" ELSE "read"
    /\ UNCHANGED <<ctx_mngr, intr, maybe_read_result, buffered_event,
                   observed_timelines, events_iter, client_log, result, malformed, call, emitted, produced>>
    /\ UNCHANGED <<plugin_cfg, client, frame, built, rate_in, rate, rtt, instant>>

\* r.read() returns Ok(n), n > 0: the bytes go to the decoder.
ReadBytes ==
    /\ pc = "read"
    /\ pc' = "decode"
    /\ UNCHANGED <<ctx_mngr, intr, maybe_read_result, buffered_event,
                   observed_timelines, events_iter, client_log, result,
                   malformed, call, emitted, produced>>
    /\ UNCHANGED <<plugin_cfg, client, frame, built, rate_in, rate, rtt, instant>>

\* r.read() returns Ok(0): EOF
ReadEof ==
    /\ pc = "read"
    /\ pc' = "flush"
    /\ UNCHANGED <<ctx_mngr, intr, maybe_read_result, buffered_event,
                   observed_timelines, events_iter, client_log, result, malformed, call, emitted, produced>>
    /\ UNCHANGED <<plugin_cfg, client, frame, built, rate_in, rate, rtt, instant>>

\* r.read() returns Err(e): the error is stored and the loop is left.
ReadError ==
    /\ pc = "read"
    /\ maybe_read_result' = Some("Io")
    /\ pc' = "flush"
    /\ UNCHANGED <<ctx_mngr, intr, buffered_event, observed_timelines,
                   events_iter, client_log, result, malformed,
                   call, emitted, produced>>
    /\ UNCHANGED <<plugin_cfg, client, frame, built, rate_in, rate, rtt, instant>>

\* decoder.decode() returns Err(UnexpectedEof): need more data
DecodeUnexpectedEof ==
    /\ pc = "decode"
    /\ pc' = "while"
    /\ UNCHANGED <<ctx_mngr, intr, maybe_read_result, buffered_event,
                   observed_timelines, events_iter, client_log, result, malformed, call, emitted, produced>>
    /\ UNCHANGED <<plugin_cfg, client, frame, built, rate_in, rate, rtt, instant>>

\* A plausible slip: a malformed frame ends the run.
DecodeMalformedAborts ==
    /\ pc = "decode"
    /\ malformed < MaxMalformed
    /\ malformed' = malformed + 1
    /\ result' = Some("Malformed")
    /\ pc' = "done"
    /\ UNCHANGED <<ctx_mngr, intr, maybe_read_result, buffered_event,
                   observed_timelines, events_iter, client_log, call, emitted, produced>>
    /\ UNCHANGED <<plugin_cfg, client, frame, built, rate_in, rate, rtt, instant>>

\* decoder.decode() returns Err(Malformed): warn and continue
DecodeMalformed ==
    /\ pc = "decode"
    /\ malformed < MaxMalformed
    /\ malformed' = malformed + 1
    /\ UNCHANGED <<ctx_mngr, pc, intr, maybe_read_result, buffered_event,
                   observed_timelines, events_iter, client_log, result, call, emitted, produced>>
    /\ UNCHANGED <<plugin_cfg, client, frame, built, rate_in, rate, rtt, instant>>

\* decoder.decode() returns a frame: the record is built and processed, and
\* the for loop over ctx.events begins.  A `?` on either step returns.
DecodeFrame ==
    /\ pc = "decode"
    /\ ctx_mngr.event_counter < MaxFrames
    /\ \E f \in Frames : \E event_record \in {frame_records[f]} :
          LET ctx == process_record(ctx_mngr, unwrap(event_record))
          IN  IF is_none(event_record)
              THEN /\ result' = Some("DefmtParser")
                   /\ pc' = "done"
                   /\ UNCHANGED <<ctx_mngr, events_iter, call, emitted, produced>>
              ELSE /\ ctx_mngr' = ctx.m
                   /\ call' = Some(CallOf(ctx_mngr, unwrap(event_record), ctx))
                   /\ emitted' = emitted \o Summaries(ctx.events)
                   /\ produced' = produced \o ctx.events
                   /\ events_iter' = ctx.events
                   /\ IF ctx.ok
                      THEN pc' = "for" /\ UNCHANGED result
                      ELSE pc' = "done" /\ result' = Some("ContextManagerInternalState")
    /\ UNCHANGED <<intr, maybe_read_result, buffered_event, observed_timelines,
                   client_log, malformed>>
    /\ UNCHANGED <<plugin_cfg, client, frame, built, rate_in, rate, rtt, instant>>

\* Where the for loop goes once `rest` is what is left of ctx.events.
after_event(rest) == IF rest = <<>> THEN "decode" ELSE "for"

\* "First iter of the loop": the buffer is empty and takes the event.
BufferFirstEvent ==
    /\ pc = "for"
    /\ is_none(buffered_event)
    /\ buffered_event' = Some(Head(events_iter))
    /\ events_iter' = Tail(events_iter)
    /\ pc' = after_event(Tail(events_iter))
    /\ UNCHANGED <<ctx_mngr, intr, maybe_read_result, observed_timelines,
                   client_log, result, malformed, call, emitted,
                   produced>>
    /\ UNCHANGED <<plugin_cfg, client, frame, built, rate_in, rate, rtt, instant>>

\* A plausible slip: the nonce is promoted whatever the next event says.
previous_event_always_promoted(prev_event, ev) ==
    [prev_event EXCEPT !.record = promote_internal_nonce(@)]

\* The event the driver sends for the buffered `prev_event` when `ev`
\* follows it.
previous_event(prev_event, ev) ==
    IF ev.add_previous_event_nonce
    THEN [prev_event EXCEPT !.record = promote_internal_nonce(@)]
    ELSE prev_event

\* A plausible slip: the timeline's attributes are passed on every switch.
SwitchTimelineWithAttrs(timeline, observed) ==
    [op |-> "switch_timeline",
     id |-> timeline.id,
     new_timeline_attrs |-> Some(timeline.attributes)]

SwitchTimeline(timeline, observed) ==
    [op |-> "switch_timeline",
     id |-> timeline.id,
     new_timeline_attrs |-> IF timeline.id \in observed
                            THEN None
                            ELSE Some(timeline.attributes)]

SendEvent(e) ==
    [op |-> "send_event", ordering |-> e.global_ordering, attrs |-> e.record]

\* A plausible slip: the event is dropped instead of sent.
send_dropped(e, failing) ==
    [observed |-> observed_timelines, log |-> client_log,
     ok |-> is_some(timeline_meta(ctx_mngr, e.context)), error |-> "Ingest"]

\* client.switch_timeline(..).await? and client.send_event(..).await? for
\* the event `e`; `failing` is the call the ingest client fails, if any.
\* Yields the observed timelines, the client's log and whether both calls
\* returned Ok.
send(e, failing) ==
    LET timeline == timeline_meta(ctx_mngr, e.context)
        observed == observed_timelines \cup {unwrap(timeline).id}
        switch == SwitchTimeline(unwrap(timeline), observed_timelines)
    IN  IF is_none(timeline)
        THEN [observed |-> observed_timelines, log |-> client_log, ok |-> FALSE,
              error |-> "ContextManagerInternalState"]
        ELSE IF failing = "switch_timeline"
        THEN [observed |-> observed, log |-> client_log, ok |-> FALSE,
              error |-> "Ingest"]
        ELSE IF failing = "send_event"
        THEN [observed |-> observed, log |-> Append(client_log, switch),
              ok |-> FALSE, error |-> "Ingest"]
        ELSE [observed |-> observed,
              log |-> client_log \o <<switch, SendEvent(e)>>,
              ok |-> TRUE, error |-> "Ingest"]

\* The buffer holds the previous event: it is promoted if the current event
\* asks for it, the current event is buffered and the previous one is sent.
SendPreviousEvent ==
    /\ pc = "for"
    /\ is_some(buffered_event)
    /\ LET ev == Head(events_iter)
           sent == send(previous_event(unwrap(buffered_event), ev), "none")
       IN  /\ buffered_event' = Some(ev)
           /\ observed_timelines' = sent.observed
           /\ client_log' = sent.log
           /\ IF sent.ok
              THEN /\ events_iter' = Tail(events_iter)
                   /\ pc' = after_event(Tail(events_iter))
                   /\ UNCHANGED result
              ELSE /\ pc' = "done"
                   /\ result' = Some(sent.error)
                   /\ UNCHANGED events_iter
    /\ UNCHANGED <<ctx_mngr, intr, maybe_read_result, malformed,
                   call, emitted, produced>>
    /\ UNCHANGED <<plugin_cfg, client, frame, built, rate_in, rate, rtt, instant>>

\* The same step when the ingest client fails one of the two calls: `?`
\* returns the error.
SendPreviousEventFails ==
    /\ pc = "for"
    /\ is_some(buffered_event)
    /\ \E failing \in {"switch_timeline", "send_event"} :
          LET ev == Head(events_iter)
              sent == send(previous_event(unwrap(buffered_event), ev), failing)
          IN  /\ buffered_event' = Some(ev)
              /\ observed_timelines' = sent.observed
              /\ client_log' = sent.log
              /\ result' = Some(sent.error)
    /\ pc' = "done"
    /\ UNCHANGED <<ctx_mngr, intr, maybe_read_result, events_iter, malformed, call, emitted, produced>>
    /\ UNCHANGED <<plugin_cfg, client, frame, built, rate_in, rate, rtt, instant>>

\* "Flush the last event"
FlushLastEvent ==
    /\ pc = "flush"
    /\ buffered_event' = None
    /\ IF is_none(buffered_event)
       THEN /\ pc' = "client_flush"
            /\ UNCHANGED <<observed_timelines, client_log, result>>
       ELSE LET sent == send(unwrap(buffered_event), "none")
            IN  /\ observed_timelines' = sent.observed
                /\ client_log' = sent.log
                /\ IF sent.ok
                   THEN pc' = "client_flush" /\ UNCHANGED result
                   ELSE pc' = "done" /\ result' = Some(sent.error)
    /\ UNCHANGED <<ctx_mngr, intr, maybe_read_result, events_iter, malformed, call, emitted, produced>>
    /\ UNCHANGED <<plugin_cfg, client, frame, built, rate_in, rate, rtt, instant>>

FlushLastEventFails ==
    /\ pc = "flush"
    /\ is_some(buffered_event)
    /\ buffered_event' = None
    /\ \E failing \in {"switch_timeline", "send_event"} :
          LET sent == send(unwrap(buffered_event), failing)
          IN  /\ observed_timelines' = sent.observed
              /\ client_log' = sent.log
              /\ result' = Some(sent.error)
    /\ pc' = "done"
    /\ UNCHANGED <<ctx_mngr, intr, maybe_read_result, events_iter, malformed, call, emitted, produced>>
    /\ UNCHANGED <<plugin_cfg, client, frame, built, rate_in, rate, rtt, instant>>

\* A plausible slip: the stored read error is forgotten.
ClientFlushForgetsReadError ==
    /\ pc = "client_flush"
    /\ client_log' = Append(client_log, [op |-> "flush"])
    /\ result' = Some("Ok")
    /\ pc' = "done"
    /\ UNCHANGED <<ctx_mngr, intr, maybe_read_result, buffered_event,
                   observed_timelines, events_iter, malformed,
                   call, emitted, produced>>
    /\ UNCHANGED <<plugin_cfg, client, frame, built, rate_in, rate, rtt, instant>>

\* client.inner.flush().await? succeeds; run returns the stored read error,
\* or Ok(()).
ClientFlush ==
    /\ pc = "client_flush"
    /\ client_log' = Append(client_log, [op |-> "flush"])
    /\ result' = IF is_some(maybe_read_result) THEN maybe_read_result ELSE Some("Ok")
    /\ pc' = "done"
    /\ UNCHANGED <<ctx_mngr, intr, maybe_read_result, buffered_event,
                   observed_timelines, events_iter, malformed,
                   call, emitted, produced>>
    /\ UNCHANGED <<plugin_cfg, client, frame, built, rate_in, rate, rtt, instant>>

\* client.inner.flush().await? fails.
ClientFlushFails ==
    /\ pc = "client_flush"
    /\ result' = Some("Ingest")
    /\ pc' = "done"
    /\ UNCHANGED <<ctx_mngr, intr, maybe_read_result, buffered_event,
                   observed_timelines, events_iter, client_log, malformed, call, emitted, produced>>
    /\ UNCHANGED <<plugin_cfg, client, frame, built, rate_in, rate, rtt, instant>>

Next ==
    \/ Interrupt
    \/ WhileNotInterrupted
    \/ ReadBytes
    \/ ReadEof
    \/ ReadError
    \/ DecodeUnexpectedEof
    \/ DecodeMalformed
    \/ DecodeFrame
    \/ BufferFirstEvent
    \/ SendPreviousEvent
    \/ SendPreviousEventFails
    \/ FlushLastEvent
    \/ FlushLastEventFails
    \/ ClientFlush
    \/ ClientFlushFails

Spec == Init /\ [][Next]_vars

(***************************************************************************)
(* Properties of the context manager.                                      *)
(***************************************************************************)
\* C1: the ContextEvents emitted by process_record, in emission order (the
\* synthetic event of a call before its real one), carry strictly
\* increasing global_ordering values.
C1_OrderingStrictlyIncreasing ==
    \A i, j \in 1..Len(emitted) :
        i < j => emitted[i].global_ordering < emitted[j].global_ordering

\* A call has emitted a synthetic event and its real event, and a later
\* call has emitted again.
C1_Witness ==
    \E i \in 1..Len(emitted) : emitted[i].synthetic /\ Len(emitted) >= i + 2

\* C3: in rtic1 mode a call emits a synthetic AUXON_CONTEXT_RETURN event if
\* and only if its record is a context enter and the call before it popped
\* the stack, so that no event has been stamped on the now-active context
\* since the pop.
HasSynthetic(events) == \E i \in 1..Len(events) : events[i].synthetic

C3_SyntheticIffSwitchesAbut ==
    (is_some(call) /\ unwrap(call).mode_before = "Rtic1")
        => (HasSynthetic(unwrap(call).events)
                <=> (unwrap(call).is_enter /\ unwrap(call).after_pop))

\* The nonces stamped on the events of one context that satisfy `Counts`,
\* in emission order.
StampedOn(ctx, Counts(_)) ==
    SelectSeq(emitted, LAMBDA e : e.context = ctx /\ is_some(e.nonce) /\ Counts(e))

SuccessiveDifferByOne(seq) ==
    \A i \in 1..(Len(seq) - 1) :
        (unwrap(seq[i + 1].nonce) - unwrap(seq[i].nonce)) % (2 ^ NonceBits) = 1

IsReal(e) == ~e.synthetic

IsAny(e) == TRUE

\* C5, as stated: for every timeline, successive nonces stamped on its
\* real (non-synthetic) events differ by exactly 1 modulo 2^64.
C5_RealNoncesDifferByOne ==
    \A ctx \in DOMAIN ctx_mngr.contexts_to_timelines :
        SuccessiveDifferByOne(StampedOn(ctx, IsReal))

\* C5, amended: for every timeline, successive nonces stamped on its
\* events, the real and the synthetic ones taken together, differ by
\* exactly 1 modulo 2^64 (here 2^NonceBits).
C5_StampedNoncesDifferByOne ==
    \A ctx \in DOMAIN ctx_mngr.contexts_to_timelines :
        SuccessiveDifferByOne(StampedOn(ctx, IsAny))

\* A timeline carries a synthetic event between two of its real events,
\* and a nonce has wrapped.
C5_Witness ==
    /\ \E i, j, k \in 1..Len(emitted) :
          /\ i < j /\ j < k
          /\ emitted[i].context = emitted[j].context
          /\ emitted[j].context = emitted[k].context
          /\ ~emitted[i].synthetic /\ emitted[j].synthetic /\ ~emitted[k].synthetic
    /\ \E i \in 1..Len(emitted) : emitted[i].nonce = Some(I64_MIN)

\* C6: after the first call to process_record the context stack is never
\* empty, a call leaves its element 0 (the root) as it was, and an exit
\* record processed while the stack has size 1 does not pop.
C6_StackKeepsRoot ==
    is_some(call) =>
        /\ ctx_mngr.context_stack # <<>>
        /\ unwrap(call).stack_before # <<>>
              => ctx_mngr.context_stack[1] = unwrap(call).stack_before[1]
        /\ (unwrap(call).is_exit /\ Len(unwrap(call).stack_before) = 1)
              => ctx_mngr.context_stack = unwrap(call).stack_before

\* An exit record has been processed in rtic1 mode with only the root on
\* the stack, after a context was entered and left.
C6_Witness ==
    /\ is_some(call)
    /\ unwrap(call).is_exit
    /\ unwrap(call).mode_before = "Rtic1"
    /\ Len(unwrap(call).stack_before) = 1
    /\ ctx_mngr.event_counter >= 4

(***************************************************************************)
(* Properties of the streaming driver.                                     *)
(***************************************************************************)
\* The send_event calls the client accepted, in call order.
Sends == SelectSeq(client_log, LAMBDA c : c.op = "send_event")

NONCE == <<"event", "nonce">>

INTERNAL_NONCE == <<"event", "internal", "defmt", "nonce">>

\* The client was flushed, once, as the last call it accepted.
FlushedLast ==
    /\ client_log # <<>>
    /\ \A i \in 1..Len(client_log) :
          client_log[i].op = "flush" <=> i = Len(client_log)

\* Every event the manager produced has been sent, in production order.
AllProducedSent ==
    /\ Len(Sends) = Len(produced)
    /\ \A i \in 1..Len(Sends) :
          /\ Sends[i].ordering = produced[i].global_ordering
          /\ Sends[i].attrs \in {produced[i].record,
                                 promote_internal_nonce(produced[i].record)}

\* C2: when run returns Ok, the send_event calls are the ContextEvents the
\* manager produced, in production order and each exactly once; the event
\* still buffered at the end of input is sent before the final flush.
C2_SendsAreProducedInOrder ==
    result = Some("Ok") =>
        /\ AllProducedSent
        /\ is_none(buffered_event)
        /\ FlushedLast

\* A run returned Ok after a call that produced a synthetic event and its
\* real event, with an event buffered at the end of input.
C2_Witness ==
    /\ result = Some("Ok")
    /\ Len(produced) >= 4
    /\ \E i \in 1..Len(produced) : is_synthetic(produced[i].record)

C7_ErrorReturnedAfterFlush ==
    (is_some(result) /\ unwrap(result) # "Ok") =>
        /\ is_none(buffered_event)
        /\ \E i \in 1..Len(client_log) : client_log[i].op = "flush"

\* C8: a frame whose record cannot be built (DefmtParser) is skipped and
\* the run goes on: run does not return that error.
C8_DefmtParserFrameSkipped ==
    is_some(result) => unwrap(result) # "DefmtParser"

\* C9: when the stream decoder reports Malformed, no event is produced or
\* sent, the buffer and the manager are left as they were, the run does not
\* return and decoding resumes.
C9_MalformedSkipped ==
    [][malformed' # malformed =>
          /\ UNCHANGED <<ctx_mngr, buffered_event, events_iter, client_log,
                         observed_timelines, produced, maybe_read_result>>
          /\ result' = None
          /\ pc = "decode" /\ pc' = "decode"]_vars

\* A run met a malformed frame and returned Ok with events sent.
C9_Witness ==
    /\ malformed >= 1
    /\ result = Some("Ok")
    /\ Len(Sends) >= 2

\* Once a read error is stored the driver is past the read loop.
NoFurtherReads ==
    is_some(maybe_read_result) => pc \in {"flush", "client_flush", "done"}

\* C10, as stated: after a read error the driver reads no more, sends the
\* buffered event, flushes the client and returns that Io error.
C10_ReadErrorReturnedAfterFlush ==
    /\ NoFurtherReads
    /\ (is_some(maybe_read_result) /\ pc = "done") =>
          /\ result = Some("Io")
          /\ is_none(buffered_event)
          /\ AllProducedSent
          /\ FlushedLast

\* C10, amended: after a read error the driver reads no more; run returns
\* that Io error exactly when the send of the buffered event and the flush
\* succeed, having sent every event and flushed last; when one of them
\* fails run returns that failure; it never returns Ok.
C10_ReadErrorReturnedUnlessFlushFails ==
    /\ NoFurtherReads
    /\ (is_some(maybe_read_result) /\ pc = "done") =>
          /\ result \in {Some("Io"), Some("Ingest"),
                         Some("ContextManagerInternalState")}
          /\ is_none(buffered_event)
          /\ result = Some("Io") <=> FlushedLast
          /\ result = Some("Io") => AllProducedSent

\* A read failed while an event was buffered, and run returned the Io error.
C10_Witness ==
    /\ maybe_read_result = Some("Io")
    /\ result = Some("Io")
    /\ Len(Sends) >= 2

\* Once the loop condition has seen the flag the driver is past the read
\* loop: it reads and decodes no more.
NoReadAfterInterrupt ==
    intr => pc \in {"while", "flush", "client_flush", "done"}

\* C11, as stated: once the loop condition sees the interruptor flag the
\* driver reads and decodes no more, sends the buffered event, flushes the
\* client and returns Ok, every produced event having been sent once.
C11_InterruptReturnsOk ==
    /\ NoReadAfterInterrupt
    /\ (intr /\ pc = "done") =>
          /\ result = Some("Ok")
          /\ is_none(buffered_event)
          /\ AllProducedSent
          /\ FlushedLast

\* C11, amended: once the loop condition sees the flag the driver reads and
\* decodes no more; run returns Ok exactly when the send of the buffered
\* event and the flush succeed, every produced event having been sent once
\* and the flush being the last call; when one of them fails run returns
\* that failure.
C11_InterruptReturnsOkUnlessFlushFails ==
    /\ NoReadAfterInterrupt
    /\ (intr /\ pc = "done") =>
          /\ result \in {Some("Ok"), Some("Ingest"),
                         Some("ContextManagerInternalState")}
          /\ is_none(buffered_event)
          /\ result = Some("Ok") <=> FlushedLast
          /\ result = Some("Ok") => AllProducedSent

\* The flag was seen while an event was buffered, after others were sent,
\* and run returned Ok.
C11_Witness ==
    /\ intr
    /\ result = Some("Ok")
    /\ Len(Sends) >= 2

(***************************************************************************)
(* Properties of the modes of the context manager.                         *)
(***************************************************************************)
\* The value an i64 counter that starts at 0 holds after k wrapping
\* increments, on the scaled width.
Wrapped(k) == ((k + 2 ^ (NonceBits - 1)) % (2 ^ NonceBits)) - 2 ^ (NonceBits - 1)

\* The name of the single context of none mode.
SingleContextName ==
    IF is_some(plugin_cfg.init_task_name)
    THEN unwrap(plugin_cfg.init_task_name)
    ELSE DEFAULT_SINGLE_TIMELINE_CONTEXT_NAME

\* C12: when the configured mode is none, whatever the records are named,
\* every call returns exactly one event; all events are on the one context
\* named init_task_name, or "main" when unset, whose timeline is the only
\* one allocated; the k-th event carries the internal nonce k (the nonce of
\* the event before it plus 1, starting at 1, wrapping as i64 does), no
\* interaction attributes, and add_previous_event_nonce is false.
C12_NoneModeSingleTimeline ==
    plugin_cfg.rtos_mode = "None" =>
        /\ Len(emitted) = ctx_mngr.event_counter
        /\ is_some(call) => (unwrap(call).ok /\ Len(unwrap(call).events) = 1)
        /\ DOMAIN ctx_mngr.contexts_to_timelines \subseteq {context_id(SingleContextName)}
        /\ \A c \in DOMAIN ctx_mngr.contexts_to_timelines :
              ctx_mngr.contexts_to_timelines[c].attributes[timeline_attr_key(<<"name">>)]
                  = String(SingleContextName)
        /\ \A i \in 1..Len(emitted) :
              /\ emitted[i].context = context_id(SingleContextName)
              /\ emitted[i].nonce = Some(Wrapped(i))
              /\ ~emitted[i].synthetic
              /\ ~emitted[i].interaction
              /\ ~emitted[i].add_previous_event_nonce

\* In none mode an enter record was processed after an exit record and the
\* nonce has wrapped.
C12_Witness ==
    /\ plugin_cfg.rtos_mode = "None"
    /\ is_some(call) /\ unwrap(call).is_enter /\ unwrap(call).after_exit
    /\ Len(emitted) > I64_MAX

\* The timeline of context `name` exists and is named `name`.
TimelineNamed(name) ==
    /\ context_id(name) \in DOMAIN ctx_mngr.contexts_to_timelines
    /\ ctx_mngr.contexts_to_timelines[context_id(name)].attributes[timeline_attr_key(<<"name">>)]
          = String(name)

\* Configured for rtic1, the manager was handed a first record that is no
\* valid start event.
StartedInvalid ==
    /\ plugin_cfg.rtos_mode = "Rtic1"
    /\ is_some(call)
    /\ unwrap(call).started_invalid

\* C13: in rtic1 mode, when the first record is not named AUXON_TRACE_START
\* or lacks a string event.task or an integer event.version, the manager is
\* in none mode from then on, UNKNOWN_CONTEXT is the root and the only
\* timeline, and that record and every later one, enters and exits
\* included, is a single event on it: no push, no pop, no interaction and
\* no synthetic event.
C13_InvalidStartFallsBack ==
    StartedInvalid =>
        /\ ctx_mngr.cfg.rtos_mode = "None"
        /\ unwrap(call).ok
        /\ Len(emitted) = ctx_mngr.event_counter
        /\ ctx_mngr.context_stack = <<context_id(UNKNOWN_CONTEXT)>>
        /\ DOMAIN ctx_mngr.contexts_to_timelines = {context_id(UNKNOWN_CONTEXT)}
        /\ TimelineNamed(UNKNOWN_CONTEXT)
        /\ \A i \in 1..Len(emitted) :
              /\ emitted[i].context = context_id(UNKNOWN_CONTEXT)
              /\ ~emitted[i].synthetic
              /\ ~emitted[i].interaction
              /\ ~emitted[i].add_previous_event_nonce

\* After an invalid start, an enter record was processed after an exit
\* record.
C13_Witness ==
    /\ StartedInvalid
    /\ unwrap(call).is_enter /\ unwrap(call).after_exit
    /\ Len(emitted) >= 4

\* The last call returned exactly one event, a normal one on
\* UNKNOWN_CONTEXT, which is the active context.
LandedOnUnknown ==
    /\ unwrap(call).ok
    /\ ctx_mngr.cfg.rtos_mode = "None"
    /\ active_context(ctx_mngr) = Some(context_id(UNKNOWN_CONTEXT))
    /\ Len(unwrap(call).events) = 1
    /\ unwrap(call).events[1].context = context_id(UNKNOWN_CONTEXT)
    /\ ~unwrap(call).events[1].synthetic
    /\ ~unwrap(call).events[1].interaction
    /\ ~unwrap(call).events[1].add_previous_event_nonce

\* C14: in rtic1 mode after a valid start, an enter record with neither a
\* string event.task nor a string event.isr switches the mode to none,
\* pushes UNKNOWN_CONTEXT, discards the pending interaction and is emitted
\* as one normal event on UNKNOWN_CONTEXT with that timeline's incremented
\* nonce, no interaction attributes and add_previous_event_nonce false, with
\* no synthetic event; every later record lands on UNKNOWN_CONTEXT.
C14_NamelessEnterDowngrades ==
    (is_some(call) /\ unwrap(call).downgraded) =>
        /\ LandedOnUnknown
        /\ TimelineNamed(UNKNOWN_CONTEXT)
        /\ unwrap(call).events[1].nonce
              = Some(ctx_mngr.contexts_to_timelines[context_id(UNKNOWN_CONTEXT)].nonce)
        /\ (unwrap(call).mode_before = "Rtic1") =>
              /\ ctx_mngr.context_stack
                    = Append(unwrap(call).stack_before, context_id(UNKNOWN_CONTEXT))
              /\ is_none(ctx_mngr.pending_context_switch_interaction)
              /\ unwrap(call).events[1].nonce = Some(1)
        /\ (unwrap(call).mode_before = "None") =>
              ctx_mngr.context_stack = unwrap(call).stack_before

\* A nameless enter arrived right after a pop, with an interaction pending.
C14_Witness ==
    /\ is_some(call) /\ unwrap(call).downgraded
    /\ unwrap(call).mode_before = "Rtic1"
    /\ unwrap(call).after_pop
    /\ Len(unwrap(call).stack_before) >= 1

\* The real events emitted so far, in emission order.
RealEvents == SelectSeq(emitted, IsReal)

\* C15: every call to process_record adds exactly 1 to event_counter and
\* returns one real event, the last of the call, stamped with the new value
\* under event.internal.defmt.event_counter, on every path, the
\* invalid-start fallback included: the k-th processed record carries k.
\* Synthetic events carry no event_counter and do not advance the counter.
C15_EventCounterStamped ==
    /\ is_some(call) =>
          /\ unwrap(call).ok
          /\ ctx_mngr.event_counter = unwrap(call).event_counter_before + 1
          /\ unwrap(call).events # <<>>
          /\ \A i \in 1..Len(unwrap(call).events) :
                unwrap(call).events[i].synthetic <=> i < Len(unwrap(call).events)
    /\ Len(RealEvents) = ctx_mngr.event_counter
    /\ \A k \in 1..Len(RealEvents) : RealEvents[k].event_counter = Some(k)
    /\ \A i \in 1..Len(emitted) :
          emitted[i].synthetic => is_none(emitted[i].event_counter)

\* A synthetic event was emitted between real events, and real events
\* followed it.
C15_Witness ==
    /\ \E i \in 1..Len(emitted) : emitted[i].synthetic /\ i + 2 <= Len(emitted)
    /\ ctx_mngr.event_counter = MaxRecords

\* The events emitted on context `ctx`, in emission order.
EventsOn(ctx) == SelectSeq(emitted, LAMBDA e : e.context = ctx)

\* C16: every ContextEvent process_record returns, real or synthetic, in
\* either mode and on every path, the invalid-start fallback included,
\* carries under event.internal.defmt.nonce the nonce of its timeline after
\* a wrapping increment made for that event: the k-th event of a timeline
\* carries the k-th value of the counter, which is where the timeline's
\* counter stands after its last event.
C16_EveryEventNonceStamped ==
    /\ \A i \in 1..Len(emitted) : is_some(emitted[i].nonce)
    /\ \A ctx \in DOMAIN ctx_mngr.contexts_to_timelines :
          /\ \A k \in 1..Len(EventsOn(ctx)) :
                EventsOn(ctx)[k].nonce = Some(Wrapped(k))
          /\ ctx_mngr.contexts_to_timelines[ctx].nonce = Wrapped(Len(EventsOn(ctx)))

\* C17: a context keeps its ContextId and its timeline for the whole run:
\* the TimelineMeta exists from the first event of the context on, is never
\* removed or replaced (same timeline id, same attributes), and its nonce
\* only moves on from the last value stamped, by one increment per event
\* emitted on it, also when the context is popped and entered again.
C17_TimelinePersists ==
    [][/\ \A c \in DOMAIN ctx_mngr.contexts_to_timelines :
             /\ c \in DOMAIN ctx_mngr'.contexts_to_timelines
             /\ ctx_mngr'.contexts_to_timelines[c].id = ctx_mngr.contexts_to_timelines[c].id
             /\ ctx_mngr'.contexts_to_timelines[c].ctx_id = c
             /\ ctx_mngr'.contexts_to_timelines[c].attributes
                   = ctx_mngr.contexts_to_timelines[c].attributes
             /\ ctx_mngr'.contexts_to_timelines[c].nonce
                   \in {ctx_mngr.contexts_to_timelines[c].nonce,
                        wrapping_add(ctx_mngr.contexts_to_timelines[c].nonce),
                        wrapping_add(wrapping_add(ctx_mngr.contexts_to_timelines[c].nonce))}
       /\ \A i \in 1..Len(emitted') :
             emitted'[i].context \in DOMAIN ctx_mngr'.contexts_to_timelines]_vars

\* A context other than the root was entered, left and entered again, and
\* its nonce went on.
C17_Witness ==
    \E i, j, k \in 1..Len(emitted) :
        /\ i < j /\ j < k
        /\ emitted[i].context = emitted[k].context
        /\ emitted[j].context # emitted[i].context
        /\ emitted[i].context # ctx_mngr.context_stack[1]
        /\ ~emitted[k].synthetic
        /\ is_some(emitted[i].nonce) /\ is_some(emitted[k].nonce)
        /\ unwrap(emitted[k].nonce) > unwrap(emitted[i].nonce)

\* The last call was made in rtic1 mode after a valid start.
Rtic1Started ==
    /\ is_some(call)
    /\ unwrap(call).mode_before = "Rtic1"
    /\ unwrap(call).event_counter_before >= 1

Last(seq) == seq[Len(seq)]

Declarations(key) ==
    {i \in 1..Len(client.inner) :
        client.inner[i].op = "declare_attr_key" /\ client.inner[i].key = key}

\* C19: over a whole run of the Client, a normalized event key is declared
\* to the ingest client at most once; later sends of the key declare nothing.
C19_EventKeyDeclaredOnce ==
    \A i \in 1..Len(client.inner) :
        (client.inner[i].op = "declare_attr_key"
            /\ starts_with(client.inner[i].key, "event"))
        => Cardinality(Declarations(client.inner[i].key)) = 1

\* The identifier the first declaration of `key` in the log got.
FirstDeclaration(inner, key) ==
    LET ds == {i \in 1..Len(inner) :
                  inner[i].op = "declare_attr_key" /\ inner[i].key = key}
    IN  inner[CHOOSE i \in ds : \A j \in ds : i <= j].id

\* A step that is the call switch_timeline(id, Some(attrs)) ends with a
\* timeline_metadata whose pairs carry, in order, the identifier of the
\* first declaration of each normalized key.
ReusesFirstDeclaration ==
    \A id \in TimelineIds : \A attrs \in TimelineAttrInputs :
        client' = switch_timeline(client, id, Some(attrs)) =>
            LET keys == iter(attrs)
                sent == client'.inner[Len(client'.inner)]
            IN  /\ sent.op = "timeline_metadata"
                /\ Len(sent.attrs) = Len(keys)
                /\ \A n \in 1..Len(keys) :
                       sent.attrs[n] =
                           <<FirstDeclaration(client'.inner,
                                              normalize_timeline_key(keys[n])),
                             attrs[keys[n]]>>
                /\ \A n \in 1..Len(keys) :
                       Declarations(normalize_timeline_key(keys[n])) # {} =>
                           FirstDeclaration(client'.inner,
                                            normalize_timeline_key(keys[n]))
                           = FirstDeclaration(client.inner,
                                              normalize_timeline_key(keys[n]))

\* Every timeline key declared so far was declared once, and timeline_keys
\* holds the identifier of that declaration.
TimelineKeyDeclaredOnce ==
    \A i \in 1..Len(client.inner) :
        (client.inner[i].op = "declare_attr_key"
            /\ starts_with(client.inner[i].key, "timeline"))
        => /\ Cardinality(Declarations(client.inner[i].key)) = 1
           /\ client.inner[i].key \in DOMAIN client.timeline_keys
           /\ client.timeline_keys[client.inner[i].key] = client.inner[i].id

\* C29: over a whole run of the Client, switch_timeline declares a
\* normalized timeline key at most once, and a later call with the key, for
\* the same or another timeline, sends the identifier of that first
\* declaration.
C29_TimelineKeyDeclaredOnce ==
    []TimelineKeyDeclaredOnce /\ [][ReusesFirstDeclaration]_vars

\* Two timelines sent their attributes, both with the key timeline.name,
\* which was declared once.
C29_Witness ==
    /\ Cardinality(Declarations(<<"timeline", "name">>)) = 1
    /\ \E i, j \in 1..Len(client.inner) :
          /\ i < j
          /\ client.inner[i].op = "open_timeline"
          /\ client.inner[j].op = "open_timeline"
          /\ client.inner[i].id # client.inner[j].id
          /\ \E m \in (i + 1)..(j - 1) : client.inner[m].op = "timeline_metadata"
          /\ j < Len(client.inner)
          /\ client.inner[Len(client.inner)].op = "timeline_metadata"
          /\ \E n \in 1..Len(client.inner[Len(client.inner)].attrs) :
                client.inner[Len(client.inner)].attrs[n][1]
                    = FirstDeclaration(client.inner, <<"timeline", "name">>)

(***************************************************************************)
(* Properties of the attribute keys.                                       *)
(***************************************************************************)
\* C20: whatever the configured additional and override timeline
\* attributes, every key of every TimelineMeta begins with "timeline.".
C20_TimelineKeysPrefixed ==
    \A ctx \in DOMAIN ctx_mngr.contexts_to_timelines :
        \A k \in DOMAIN ctx_mngr.contexts_to_timelines[ctx].attributes :
            starts_with(k, "timeline")

\* All keys of a record begin with "event.".
EventKeys(ev) == \A k \in DOMAIN ev : starts_with(k, "event")

\* C21: every key of every record begins with "event.": of the records
\* from_frame builds of the frames of a run, of the records of the events
\* the manager emits, real and synthetic, and of the records the driver
\* buffers and sends, with the nonce promoted or not.
C21_EventKeysPrefixed ==
    /\ \A f \in Frames :
          is_some(from_frame(f, None)) => EventKeys(unwrap(from_frame(f, None)))
    /\ \A i \in 1..Len(produced) : EventKeys(produced[i].record)
    /\ is_some(buffered_event) => EventKeys(unwrap(buffered_event).record)
    /\ \A i \in 1..Len(client_log) :
          client_log[i].op = "send_event" => EventKeys(client_log[i].attrs)

\* A synthetic event was emitted and an event was sent with its nonce
\* promoted.
C21_Witness ==
    /\ \E i \in 1..Len(produced) : is_synthetic(produced[i].record)
    /\ \E i \in 1..Len(client_log) :
          /\ client_log[i].op = "send_event"
          /\ attr_key(<<"nonce">>) \in DOMAIN client_log[i].attrs

(***************************************************************************)
(* Properties of the record builder.                                       *)
(***************************************************************************)
TIMESTAMP_TYPE == internal_attr_key(<<"timestamp", "type">>)
RAW_TIMESTAMP == internal_attr_key(<<"timestamp">>)
EVENT_TIMESTAMP == attr_key(<<"timestamp">>)

\* from_frame returned Ok for the frame.
BuiltOk == is_some(built) /\ is_some(unwrap(built).result)

BuiltRecord == unwrap(unwrap(built).result)

TheFrame == unwrap(frame).f

\* The frame has a timestamp format and exactly one timestamp argument,
\* whose value fits u64.
HasTimestamp ==
    /\ is_some(TheFrame.timestamp_format)
    /\ Len(TheFrame.timestamp_args) = 1
    /\ TheFrame.timestamp_args[1][1] \in {"Uxx", "Ixx"}
    /\ TheFrame.timestamp_args[1][2] \in 0..U64_MAX

RawValue == TheFrame.timestamp_args[1][2]

\* The unit hint of the frame's timestamp format, "" for none.
Hint ==
    LET fmt == unwrap(TheFrame.timestamp_format)
    IN  IF \E i \in 1..Len(fmt) : fmt[i] = ":" THEN fmt[Len(fmt) - 1] ELSE ""

RawTimestampRecorded ==
    /\ TIMESTAMP_TYPE \in DOMAIN BuiltRecord
    /\ RAW_TIMESTAMP \in DOMAIN BuiltRecord
    /\ BuiltRecord[RAW_TIMESTAMP][2] = RawValue

\* C22 as stated: a frame with a timestamp format and one argument that
\* fits u64 yields a record with the timestamp type and the raw timestamp,
\* whatever the unit hint.
C22_TimestampRecordedForAnyHint ==
    (BuiltOk /\ HasTimestamp) => RawTimestampRecorded

\* C22, amended: such a frame yields a record with the timestamp type and
\* the raw timestamp when the hint is us, tus, ms, tms or ts or there is no
\* hint; with any other hint the record has neither.
C22_TimestampRecordedForKnownHint ==
    (BuiltOk /\ HasTimestamp) =>
        IF Hint \in {"us", "tus", "ms", "tms", "ts", ""}
        THEN /\ RawTimestampRecorded
             /\ BuiltRecord[TIMESTAMP_TYPE] =
                    String(CASE Hint \in {"us", "tus"} -> "us"
                             [] Hint \in {"ms", "tms"} -> "ms"
                             [] Hint = "ts" -> "s"
                             [] OTHER -> "ticks")
        ELSE /\ TIMESTAMP_TYPE \notin DOMAIN BuiltRecord
             /\ RAW_TIMESTAMP \notin DOMAIN BuiltRecord

\* A record was built of a frame whose timestamp is the largest u64, in
\* thousandths of a second.
C22_Witness ==
    /\ BuiltOk /\ HasTimestamp
    /\ Hint = "tms"
    /\ RawValue = U64_MAX
    /\ RawTimestampRecorded

\* Nanoseconds in one unit of the hint.
NanosPer(hint) ==
    CASE hint \in {"us", "tus"} -> 1000
      [] hint \in {"ms", "tms"} -> 1000000
      [] hint = "ts" -> 1000000000

\* C23: with a unit, event.timestamp is the raw value times the
\* nanoseconds of the unit when that fits u64; when it does not,
\* event.timestamp is left out and the raw value and the type stay; without
\* a unit (ticks) there is no event.timestamp.
C23_NanosecondsOrOmitted ==
    (BuiltOk /\ HasTimestamp /\ Hint \in {"us", "tus", "ms", "tms", "ts", ""}) =>
        IF Hint = ""
        THEN EVENT_TIMESTAMP \notin DOMAIN BuiltRecord
        ELSE IF RawValue <= U64_MAX \div NanosPer(Hint)
        THEN /\ EVENT_TIMESTAMP \in DOMAIN BuiltRecord
             /\ BuiltRecord[EVENT_TIMESTAMP] = Timestamp(RawValue * NanosPer(Hint))
        ELSE /\ EVENT_TIMESTAMP \notin DOMAIN BuiltRecord
             /\ RawTimestampRecorded

\* A record was built of a timestamp of two seconds on the scaled width,
\* whose nanoseconds do not fit.
C23_Witness ==
    /\ BuiltOk /\ HasTimestamp
    /\ Hint = "ts"
    /\ RawValue = 2
    /\ RawValue > U64_MAX \div NanosPer(Hint)
    /\ RawTimestampRecorded

\* The frame's format string is "big::v={=u128}": one unsigned argument
\* bound to the key v.
UnsignedParameter ==
    /\ is_some(TheFrame.fragments)
    /\ unwrap(TheFrame.fragments) =
          <<Literal(<<"big", "::", "v", "=">>), Parameter("u128", 0)>>
    /\ TheFrame.args[1][1] = "Uxx"

\* C24: an unsigned argument bound to a key is recorded under event.<key>
\* with the same numeric value, for every value of the u128 range.
C24_UnsignedValuePreserved ==
    (BuiltOk /\ UnsignedParameter) =>
        /\ attr_key(<<"v">>) \in DOMAIN BuiltRecord
        /\ BuiltRecord[attr_key(<<"v">>)][1] \in {"BigInt", "Integer"}
        /\ BuiltRecord[attr_key(<<"v">>)][2] = TheFrame.args[1][2]

\* The frame's format string is "<name>:: <key>={=[u8]}" or "<key>={=[u8]}"
\* and its argument is a byte slice.
SliceParameter ==
    /\ is_some(TheFrame.fragments)
    /\ Len(unwrap(TheFrame.fragments)) = 2
    /\ unwrap(TheFrame.fragments)[2].kind = "Parameter"
    /\ TheFrame.args[1][1] = "Slice"

SliceLiteral == unwrap(TheFrame.fragments)[1].l

\* The event name before "::", "" when the format string has none.
SliceEventName ==
    IF \E i \in 1..Len(SliceLiteral) : SliceLiteral[i] = "::"
    THEN to_string(trim(unwrap(split_once(SliceLiteral, "::"))[1]))
    ELSE ""

\* The key before "=".
SliceKey ==
    LET i == CHOOSE i \in 0..Len(SliceLiteral) :
                 /\ i = 0 \/ SliceLiteral[i] \in {"::", " "}
                 /\ \A j \in (i + 1)..(Len(SliceLiteral) - 1) :
                        SliceLiteral[j] \notin {"::", " "}
    IN  SubSeq(SliceLiteral, i + 1, Len(SliceLiteral) - 1)

SliceBytes == TheFrame.args[1][2]

\* The bytes as a little-endian number, from the most significant byte down.
RECURSIVE LittleEndian(_, _)
LittleEndian(bytes, i) ==
    IF i = 0 THEN 0 ELSE bytes[i] * ByteRadix ^ (i - 1) + LittleEndian(bytes, i - 1)

\* v is the signed integer the bytes spell.
IsSignedLittleEndian(v, bytes) ==
    /\ v >= 0 - (ByteRadix ^ Len(bytes)) \div 2
    /\ v < (ByteRadix ^ Len(bytes) + 1) \div 2
    /\ (v - LittleEndian(bytes, Len(bytes))) % (ByteRadix ^ Len(bytes)) = 0

\* C25: a byte slice becomes event.<key> only for a deviant event name and
\* the key mutator.id or mutation.id, and then sixteen bytes give the signed
\* little-endian integer they spell; for any other name or key the slice
\* leaves only event.internal.defmt.<key>.type.
C25_UuidOnlyForDeviantKeys ==
    (BuiltOk /\ SliceParameter) =>
        /\ internal_attr_key(key_of(SliceKey \o <<".", "type">>)) \in DOMAIN BuiltRecord
        /\ IF /\ SliceEventName \in DeviantEventNames
              /\ to_string(SliceKey) \in {"mutator.id", "mutation.id"}
              /\ Len(SliceBytes) = UuidLen
           THEN /\ attr_key(key_of(SliceKey)) \in DOMAIN BuiltRecord
                /\ IsSignedLittleEndian(BuiltRecord[attr_key(key_of(SliceKey))][2],
                                        SliceBytes)
           ELSE attr_key(key_of(SliceKey)) \notin DOMAIN BuiltRecord

\* A record was built of a deviant event whose mutation.id is a slice of
\* sixteen bytes with the top bit set.
C25_Witness ==
    /\ BuiltOk /\ SliceParameter
    /\ SliceEventName = "modality.mutation.injected"
    /\ to_string(SliceKey) = "mutation.id"
    /\ Len(SliceBytes) = UuidLen
    /\ SliceBytes[UuidLen] = ByteRadix - 1
    /\ BuiltRecord[attr_key(<<"mutation", "id">>)][2] < 0

\* The record before and after the last promote_internal_nonce.
Promoted == is_some(built) /\ unwrap(built).last_op = "promote_internal_nonce"

BeforePromotion == unwrap(unwrap(built).before)

AfterPromotion == unwrap(unwrap(built).result)

\* C28: promote_internal_nonce moves the value of the internal nonce key to
\* event.nonce and leaves every other attribute alone; without the internal
\* key, as on a second call, it leaves the record as it was.
C28_PromoteIdempotent ==
    Promoted =>
        /\ IF INTERNAL_NONCE \in DOMAIN BeforePromotion
           THEN /\ DOMAIN AfterPromotion =
                       (DOMAIN BeforePromotion \ {INTERNAL_NONCE}) \cup {NONCE}
                /\ AfterPromotion[NONCE] = BeforePromotion[INTERNAL_NONCE]
                /\ \A k \in DOMAIN BeforePromotion \ {INTERNAL_NONCE, NONCE} :
                       AfterPromotion[k] = BeforePromotion[k]
           ELSE AfterPromotion = BeforePromotion
        /\ unwrap(built).promotions > 1 => AfterPromotion = BeforePromotion

\* The nonce was promoted twice, and the record carries the nonce the first
\* promotion gave it.
C28_Witness ==
    /\ Promoted
    /\ unwrap(built).promotions = 2
    /\ NONCE \in DOMAIN AfterPromotion
    /\ AfterPromotion[NONCE] = Integer(I64_MIN)
    /\ INTERNAL_NONCE \notin DOMAIN AfterPromotion
    /\ Cardinality(DOMAIN AfterPromotion) > 1

(***************************************************************************)
(* Properties of the nonce at the end of its range.                        *)
(***************************************************************************)
\* A step that processes an exit record and pops the context on top of the
\* stack stamps the successor of that timeline's nonce, I64_MIN after
\* I64_MAX, and stashes the same nonce as the remote nonce.
ExitStashesStampedNonce ==
    (/\ ctx_mngr'.event_counter # ctx_mngr.event_counter
     /\ is_some(call')
     /\ unwrap(call').is_exit
     /\ unwrap(call').popped)
    => LET ctx == ctx_mngr.context_stack[Len(ctx_mngr.context_stack)]
           n == ctx_mngr.contexts_to_timelines[ctx].nonce
           evs == unwrap(call').events
           successor == IF n = I64_MAX THEN I64_MIN ELSE n + 1
           stashed == ctx_mngr'.pending_context_switch_interaction
       IN  /\ unwrap(call').ok
           /\ evs # <<>>
           /\ evs[Len(evs)].context = ctx
           /\ evs[Len(evs)].nonce = Some(successor)
           /\ ctx_mngr'.contexts_to_timelines[ctx].nonce = successor
           /\ is_some(stashed)
           /\ unwrap(stashed)[1] = ctx
           /\ unwrap(stashed)[3] = successor

\* C27: the nonce of a timeline wraps from the largest to the smallest value
\* without an error, and the remote nonce a context pop stashes wraps the
\* same way: it is the nonce stamped on the exit event.
C27_NonceWraps == [][ExitStashesStampedNonce]_vars

\* An exit record was processed on a timeline whose nonce was the largest:
\* the exit event and the stashed interaction carry the smallest.
C27_Witness ==
    /\ is_some(call)
    /\ unwrap(call).ok /\ unwrap(call).is_exit /\ unwrap(call).popped
    /\ unwrap(call).events[Len(unwrap(call).events)].nonce = Some(I64_MIN)
    /\ is_some(ctx_mngr.pending_context_switch_interaction)
    /\ unwrap(ctx_mngr.pending_context_switch_interaction)[3] = I64_MIN

(***************************************************************************)
(* Rate (src/src/time.rs).  The text from_str is given is a sequence of    *)
(* characters.  Result<Rate, String> and Option<Rate> are both an Option   *)
(* here: the error message is not kept.                                    *)
(***************************************************************************)
\* Rate::new without the comparison of the two components.
Rate_new_unordered(nom, denom) ==
    IF nom = 0 \/ denom = 0
    THEN None
    ELSE Some([nom |-> nom, denom |-> denom])

Rate_new(nom, denom) ==
    IF nom = 0 \/ denom = 0 \/ nom > denom
    THEN None
    ELSE Some([nom |-> nom, denom |-> denom])

numerator(r) == r.nom

denominator(r) == r.denom

DecimalDigits == <<"0", "1", "2", "3", "4", "5", "6", "7", "8", "9">>

to_digit(c) == (CHOOSE i \in 1..Len(DecimalDigits) : DecimalDigits[i] = c) - 1

\* The loop of str::parse::<u64> over the digits left: the value so far
\* times ten plus the digit, or None when that leaves the u64 range.
RECURSIVE parse_digits(_, _)
parse_digits(digits, acc) ==
    IF digits = <<>>
    THEN Some(acc)
    ELSE LET m == checked_mul(acc, Len(DecimalDigits))
         IN  IF is_none(m) \/ unwrap(m) > U64_MAX - to_digit(Head(digits))
             THEN None
             ELSE parse_digits(Tail(digits), unwrap(m) + to_digit(Head(digits)))

\* c.parse::<u64>().ok(): an optional plus sign, then one decimal digit or
\* more, within the u64 range.
parse_u64(c) ==
    LET digits == IF c # <<>> /\ Head(c) = "+" THEN Tail(c) ELSE c
    IN  IF digits = <<>>
           \/ \E i \in 1..Len(digits) :
                 \A j \in 1..Len(DecimalDigits) : DecimalDigits[j] # digits[i]
        THEN None
        ELSE parse_digits(digits, 0)

Rate_from_str(s) ==
    LET components == trim_all(split(s, "/"))
        nom == parse_u64(components[1])
        denom == parse_u64(components[2])
    IN  IF Len(components) # 2 \/ \E i \in 1..Len(components) : components[i] = <<>>
        THEN None
        ELSE IF is_some(nom) /\ is_some(denom)
        THEN Rate_new(unwrap(nom), unwrap(denom))
        ELSE None

(***************************************************************************)
(* Rate::new and Rate::from_str applied to one input each.                 *)
(***************************************************************************)
\* U64_MAX and its successor in decimal digits.
U64_MAX_digits == <<"1", "0", "7", "3", "7", "4", "1", "8", "2", "3">>

U64_MAX_successor_digits == <<"1", "0", "7", "3", "7", "4", "1", "8", "2", "4">>

\* What stands where a component of the rate is expected.
RateComponents ==
    {<<>>, <<"0">>, <<"1">>, <<"2">>, <<"1", "0">>, <<"0", "1">>, <<"+", "1">>,
     <<"+">>, <<"-", "1">>, <<"x">>, <<"1", "x">>, <<"1", " ", "0">>,
     U64_MAX_digits, U64_MAX_successor_digits}

LeftPads == {<<>>, <<" ">>, <<"\n", " ">>}

RightPads == {<<>>, <<" ">>}

PaddedComponents ==
    {l \o c \o r : l \in LeftPads, c \in RateComponents, r \in RightPads}

\* Texts of one, two and three components.
RateTexts ==
    PaddedComponents
    \cup {a \o <<"/">> \o b : a, b \in PaddedComponents}
    \cup {a \o <<"/">> \o b \o <<"/">> \o c :
             a, b, c \in {<<"1">>, <<"2">>, <<>>, <<" ", "1", "0">>}}

RateValues == {0, 1, 2, U64_MAX - 1, U64_MAX}

RateInputs ==
    {[op |-> "new", nom |-> n, denom |-> d, s |-> <<>>] : n, d \in RateValues}
    \cup {[op |-> "from_str", nom |-> 0, denom |-> 0, s |-> s] : s \in RateTexts}

InitRate ==
    /\ plugin_cfg = [rtos_mode |-> "None", init_task_name |-> None,
                     disable_interactions |-> FALSE]
    /\ ctx_mngr = ContextManager_new(plugin_cfg, CommonTimelineAttrs)
    /\ pc = "rate"
    /\ intr = FALSE
    /\ maybe_read_result = None
    /\ buffered_event = None
    /\ observed_timelines = {}
    /\ events_iter = <<>>
    /\ client_log = <<>>
    /\ result = None
    /\ malformed = 0
    /\ call = None
    /\ emitted = <<>>
    /\ produced = <<>>
    /\ client = Client_new
    /\ frame = None
    /\ built = None
    /\ rate_in \in {Some(i) : i \in RateInputs}
    /\ rate = None
    /\ instant = None
    /\ rtt = None

RateNew ==
    /\ pc = "rate"
    /\ rate = None
    /\ unwrap(rate_in).op = "new"
    /\ rate' = Some([res |-> Rate_new(unwrap(rate_in).nom, unwrap(rate_in).denom)])
    /\ UNCHANGED driver_vars
    /\ UNCHANGED <<plugin_cfg, ctx_mngr, call, emitted, client, frame, built, rate_in, rtt, instant>>

RateFromStr ==
    /\ pc = "rate"
    /\ rate = None
    /\ unwrap(rate_in).op = "from_str"
    /\ rate' = Some([res |-> Rate_from_str(unwrap(rate_in).s)])
    /\ UNCHANGED driver_vars
    /\ UNCHANGED <<plugin_cfg, ctx_mngr, call, emitted, client, frame, built, rate_in, rtt, instant>>

NextRate == RateNew \/ RateFromStr

SpecRate == InitRate /\ [][NextRate]_vars

(***************************************************************************)
(* Properties of Rate.                                                     *)
(***************************************************************************)
\* The numerals of the inputs and the numbers they denote: decimal digits,
\* with leading zeros or a plus sign allowed, within the u64 range.
RateNumerals ==
    {<<"0", 0>>, <<"1", 1>>, <<"2", 2>>, <<"10", 10>>, <<"01", 1>>, <<"+1", 1>>,
     <<"1073741823", U64_MAX>>}

\* The part of the text is the numeral with whitespace around it.
IsPadded(part, numeral) ==
    \E k \in 1..(Len(part) + 1) : \E l \in 0..Len(part) :
        /\ to_string(SubSeq(part, k, l)) = numeral
        /\ \A i \in 1..Len(part) : (i < k \/ i > l) => part[i] \in {" ", "\n"}

\* The text is "n/d": one slash, a numeral before it and one after it.
IsRateText(s, n, d) ==
    \E i \in 1..Len(s) :
        /\ s[i] = "/"
        /\ \A j \in 1..Len(s) : s[j] = "/" => j = i
        /\ IsPadded(SubSeq(s, 1, i - 1), n)
        /\ IsPadded(SubSeq(s, i + 1, Len(s)), d)

AcceptableRates ==
    IF unwrap(rate_in).op = "new"
    THEN {<<n, d>> \in RateValues \X RateValues :
             /\ n = unwrap(rate_in).nom /\ d = unwrap(rate_in).denom
             /\ n # 0 /\ d # 0 /\ n <= d}
    ELSE {<<n[2], d[2]>> : <<n, d>> \in
             {p \in RateNumerals \X RateNumerals :
                 /\ IsRateText(unwrap(rate_in).s, p[1][1], p[2][1])
                 /\ p[1][2] # 0 /\ p[2][2] # 0 /\ p[1][2] <= p[2][2]}}

\* C30: Rate::new(n, d), and Rate::from_str on a text, succeed exactly when
\* the input is two non-zero u64 numbers n <= d, as numbers or as "n/d" with
\* whitespace allowed around the numerals, and then numerator() is n and
\* denominator() is d; any other input is rejected.
C30_RateAcceptedExactly ==
    is_some(rate) =>
        LET res == unwrap(rate).res
        IN  /\ is_some(res) <=> AcceptableRates # {}
            /\ is_some(res) =>
                  AcceptableRates = {<<numerator(unwrap(res)), denominator(unwrap(res))>>}

\* from_str accepted "2 / 10" as the rate 2/10.
C30_Witness ==
    /\ is_some(rate)
    /\ unwrap(rate_in).op = "from_str"
    /\ to_string(unwrap(rate_in).s) = " 2 /\n 10"
    /\ unwrap(rate).res = Some([nom |-> 2, denom |-> 10])

(***************************************************************************)
(* DefmtRttReader (src/src/bin/rtt_collector.rs): the task that runs the   *)
(* read loop of run() over the RTT reader, the main task that waits for    *)
(* ctrl-c or for the end of that task, and the ctrl-c handler.  The three  *)
(* share the Mutex<Session> and the Interruptor, a single atomic boolean   *)
(* that is set and never cleared.  Every step between two points where     *)
(* another thread can be observed is an action.                            *)
(***************************************************************************)
\* read() calls of one run, fetches of one read() call, ctrl-c signals and
\* the size of the buffer handed to read().
MaxReads == 2

MaxPolls == 3

MaxSignals == 2

MaxBytes == 2

\* Interruptor::is_set reading FALSE whatever the flag holds.
is_set_never(interruptor) == FALSE

\* Interruptor::is_set
is_set(interruptor) == interruptor

\* io::Result<usize>
io_Ok(n) == [ok |-> TRUE, n |-> n]

io_Err == [ok |-> FALSE, n |-> 0]

\* What session.core(..) and channel.read(..) can give under the lock.
FetchOutcomes == {io_Err} \cup {io_Ok(n) : n \in 0..MaxBytes}

InitRtt ==
    /\ plugin_cfg = [rtos_mode |-> "None", init_task_name |-> None,
                     disable_interactions |-> FALSE]
    /\ ctx_mngr = ContextManager_new(plugin_cfg, CommonTimelineAttrs)
    /\ pc = "rtt"
    /\ intr = FALSE
    /\ maybe_read_result = None
    /\ buffered_event = None
    /\ observed_timelines = {}
    /\ events_iter = <<>>
    /\ client_log = <<>>
    /\ result = None
    /\ malformed = 0
    /\ call = None
    /\ emitted = <<>>
    /\ produced = <<>>
    /\ client = Client_new
    /\ frame = None
    /\ built = None
    /\ rate_in = None
    /\ rate = None
    /\ instant = None
    /\ rtt = Some([interruptor |-> FALSE,
                   session |-> "free",      \* who holds the Mutex<Session>
                   reader |-> "run_loop",   \* where the reading task is
                   ret |-> None,            \* what the last read() returned
                   fetched |-> <<>>,        \* history: the fetches of this read()
                   reads |-> 0,
                   main |-> "select",       \* where the main task is
                   aborted |-> FALSE,       \* join_handle.abort() was called
                   signals |-> 0,
                   exited |-> FALSE])

Rtt == unwrap(rtt)

RttStep(next) ==
    /\ pc = "rtt"
    /\ ~Rtt.exited
    /\ rtt' = Some(next)
    /\ UNCHANGED driver_vars
    /\ UNCHANGED <<plugin_cfg, ctx_mngr, call, emitted, client, frame, built, rate_in, rate, instant>>

\* run(): `while !intr.is_set()` and the call of r.read
RunLoop ==
    /\ Rtt.reader = "run_loop"
    /\ IF is_set(Rtt.interruptor)
       THEN RttStep([Rtt EXCEPT !.reader = "finished"])
       ELSE /\ Rtt.reads < MaxReads
            /\ RttStep([Rtt EXCEPT !.reader = "read_loop", !.reads = @ + 1,
                                   !.fetched = <<>>, !.ret = None])

\* read(): `while !self.interruptor.is_set()`, and `Ok(0)` after the loop
ReadLoop ==
    /\ Rtt.reader = "read_loop"
    /\ IF is_set(Rtt.interruptor)
       THEN RttStep([Rtt EXCEPT !.reader = "read_returned", !.ret = Some(io_Ok(0))])
       ELSE RttStep([Rtt EXCEPT !.reader = "lock"])

\* read(): self.session.lock()
ReadLock ==
    /\ Rtt.reader = "lock"
    /\ Rtt.session = "free"
    /\ Len(Rtt.fetched) < MaxPolls
    /\ RttStep([Rtt EXCEPT !.reader = "fetch", !.session = "reader",
                           !.fetched = Append(@, [set |-> Rtt.interruptor,
                                                  res |-> None])])

\* read(): session.core(..) and channel.read(..); the guard is dropped at the
\* end of the block, and by `?` when either fails.
ReadFetch ==
    /\ Rtt.reader = "fetch"
    /\ \E outcome \in FetchOutcomes :
          LET fetched == [Rtt.fetched EXCEPT ![Len(Rtt.fetched)].res = Some(outcome)]
          IN  IF ~outcome.ok
              THEN RttStep([Rtt EXCEPT !.session = "free", !.fetched = fetched,
                                       !.reader = "read_returned",
                                       !.ret = Some(io_Err)])
              ELSE IF outcome.n # 0
              THEN RttStep([Rtt EXCEPT !.session = "free", !.fetched = fetched,
                                       !.reader = "sleep_1ms"])
              ELSE RttStep([Rtt EXCEPT !.session = "free", !.fetched = fetched,
                                       !.reader = "sleep_100ms"])

\* read(): the sleep of 1 ms and `return Ok(rtt_bytes_read)`
ReadReturn ==
    /\ Rtt.reader = "sleep_1ms"
    /\ RttStep([Rtt EXCEPT !.reader = "read_returned",
                           !.ret = Rtt.fetched[Len(Rtt.fetched)].res])

\* read(): the sleep of 100 ms
ReadSleep ==
    /\ Rtt.reader = "sleep_100ms"
    /\ RttStep([Rtt EXCEPT !.reader = "read_loop"])

\* run(): the match on r.read's result and `if bytes_read == 0 { break }`
RunRead ==
    /\ Rtt.reader = "read_returned"
    /\ IF ~unwrap(Rtt.ret).ok \/ unwrap(Rtt.ret).n = 0
       THEN RttStep([Rtt EXCEPT !.reader = "finished"])
       ELSE RttStep([Rtt EXCEPT !.reader = "decode"])

\* run(): the decode loop; the task ends at an await once it was aborted.
RunDecode ==
    /\ Rtt.reader = "decode"
    /\ \/ RttStep([Rtt EXCEPT !.reader = "run_loop"])
       \/ /\ Rtt.aborted
          /\ RttStep([Rtt EXCEPT !.reader = "aborted"])

\* The ctrl-c handler: the first signal sets the interruptor, a later one
\* exits the process.
CtrlC ==
    /\ Rtt.signals < MaxSignals
    /\ IF is_set(Rtt.interruptor)
       THEN RttStep([Rtt EXCEPT !.signals = @ + 1, !.exited = TRUE])
       ELSE RttStep([Rtt EXCEPT !.signals = @ + 1, !.interruptor = TRUE])

\* do_main: the select! takes the ctrl_c branch, or the branch of the
\* finished task, which returns at once when the task ended with the read
\* error.
MainSelect ==
    /\ Rtt.main = "select"
    /\ \/ /\ Rtt.signals > 0
          /\ RttStep([Rtt EXCEPT !.main = "lock"])
       \/ /\ Rtt.reader = "finished"
          /\ IF is_some(Rtt.ret) /\ ~unwrap(Rtt.ret).ok
             THEN RttStep([Rtt EXCEPT !.main = "done"])
             ELSE RttStep([Rtt EXCEPT !.main = "relock"])

\* do_main: `let _session = session.lock().unwrap()`
MainLock ==
    /\ Rtt.main = "lock"
    /\ Rtt.session = "free"
    /\ RttStep([Rtt EXCEPT !.main = "sleep", !.session = "main"])

\* do_main: the sleep of 100 ms under the lock, join_handle.abort(), and the
\* end of the branch, which drops the guard
MainAbort ==
    /\ Rtt.main = "sleep"
    /\ RttStep([Rtt EXCEPT !.main = "relock", !.session = "free", !.aborted = TRUE])

\* do_main: the second session.lock()
MainRelock ==
    /\ Rtt.main = "relock"
    /\ Rtt.session = "free"
    /\ RttStep([Rtt EXCEPT !.main = "set_mode", !.session = "main"])

\* do_main: up_channel.set_mode and the return
MainSetMode ==
    /\ Rtt.main = "set_mode"
    /\ RttStep([Rtt EXCEPT !.main = "done", !.session = "free"])

NextRtt ==
    \/ RunLoop \/ ReadLoop \/ ReadLock \/ ReadFetch \/ ReadReturn \/ ReadSleep
    \/ RunRead \/ RunDecode
    \/ CtrlC
    \/ MainSelect \/ MainLock \/ MainAbort \/ MainRelock \/ MainSetMode

SpecRtt == InitRtt /\ [][NextRtt]_vars

(***************************************************************************)
(* Properties of the RTT reader.                                           *)
(***************************************************************************)
\* The reader holds the session exactly while one fetch is under way.
LockOnlyWhileFetching ==
    /\ Rtt.session = "reader" <=> Rtt.reader = "fetch"
    /\ Rtt.reader = "fetch" <=>
          (Rtt.fetched # <<>> /\ is_none(Rtt.fetched[Len(Rtt.fetched)].res))
    /\ \A i \in 1..(Len(Rtt.fetched) - 1) : is_some(Rtt.fetched[i].res)

\* A fetch that gave bytes, or failed, is the last of its read(), and what
\* read() returns is what it gave.
ReturnsFirstBytes ==
    /\ \A i \in 1..(Len(Rtt.fetched) - 1) : Rtt.fetched[i].res = Some(io_Ok(0))
    /\ (Rtt.reader = "read_returned" /\ unwrap(Rtt.ret) # io_Ok(0)) =>
          /\ Rtt.fetched # <<>>
          /\ Rtt.fetched[Len(Rtt.fetched)].res = Rtt.ret

\* A fetch begun with the interruptor set is the last of its read(), and
\* read() returns 0 only with the interruptor set and nothing fetched.
ReturnsZeroOnceInterrupted ==
    /\ \A i \in 1..(Len(Rtt.fetched) - 1) : ~Rtt.fetched[i].set
    /\ (Rtt.reader = "read_loop" /\ Rtt.interruptor) =>
          \A i \in 1..Len(Rtt.fetched) : Rtt.fetched[i].res = Some(io_Ok(0))
    /\ (Rtt.reader = "read_returned" /\ Rtt.ret = Some(io_Ok(0))) =>
          /\ Rtt.interruptor
          /\ \A i \in 1..Len(Rtt.fetched) : Rtt.fetched[i].res = Some(io_Ok(0))

\* A read() that finds the interruptor set at its loop condition returns 0
\* in that step, and the driver leaves its loop on a 0.
InterruptedReadEnds ==
    /\ (Rtt.reader = "read_loop" /\ Rtt.interruptor /\ rtt' # rtt
        /\ unwrap(rtt').reader # "read_loop")
       => (unwrap(rtt').reader = "read_returned" /\ unwrap(rtt').ret = Some(io_Ok(0))
           /\ unwrap(rtt').fetched = Rtt.fetched)
    /\ (Rtt.reader = "read_returned" /\ Rtt.ret = Some(io_Ok(0))
        /\ unwrap(rtt').reader # "read_returned")
       => unwrap(rtt').reader = "finished"

\* C26: read() holds the session lock only for one fetch at a time and never
\* while it sleeps; it returns the byte count of the first fetch that gives
\* bytes; and once it sees the interruptor set with no bytes fetched it
\* returns 0, which ends the driver's loop, without another fetch.
C26_LockPerFetchAndInterrupt ==
    /\ [](LockOnlyWhileFetching /\ ReturnsFirstBytes /\ ReturnsZeroOnceInterrupted)
    /\ [][InterruptedReadEnds]_vars

\* After a fetch that gave nothing, the interruptor was set while the reader
\* slept without the lock; the read() then returned 0 and the driver's loop
\* ended.
C26_Witness ==
    /\ Rtt.reader = "finished"
    /\ Rtt.ret = Some(io_Ok(0))
    /\ Rtt.interruptor
    /\ Len(Rtt.fetched) = 2
    /\ \A i \in 1..Len(Rtt.fetched) :
          Rtt.fetched[i].res = Some(io_Ok(0)) /\ ~Rtt.fetched[i].set

(***************************************************************************)
(* impl Mul<InstantTicks> for Rate (src/src/time.rs).  The u64 range is    *)
(* scaled to U64_MAX, and NS_PER_SEC with it, so that products on both     *)
(* sides of the range are within reach.  A multiplication that leaves the  *)
(* range panics in a build with overflow checks and wraps in one without.  *)
(***************************************************************************)
NS_PER_SEC == 1000

\* a * b does not fit a u64
mul_overflows(a, b) == b # 0 /\ a > U64_MAX \div b

\* u64::wrapping_mul, by doubling, so that no step leaves the integers of
\* the model checker
RECURSIVE wrapping_mul(_, _)
wrapping_mul(a, b) ==
    IF b = 0
    THEN 0
    ELSE LET half == wrapping_mul(a, b \div 2)
             twice == ((half - (U64_MAX - half)) - 1)
             doubled == IF half > U64_MAX - half THEN twice ELSE half + half
             rest == IF b % 2 = 1 THEN a ELSE 0
         IN  IF doubled > U64_MAX - rest
             THEN (doubled - (U64_MAX - rest)) - 1
             ELSE doubled + rest

\* What a Rate times a tick count gives: Ok with the nanoseconds, or the
\* panic of the overflow check.
Nanos(ns) == [panic |-> FALSE, ns |-> ns]

MulPanic == [panic |-> TRUE, ns |-> 0]

\* (self.nom * rhs * NS_PER_SEC) / self.denom
Rate_mul(self, rhs) ==
    IF mul_overflows(self.nom, rhs)
       \/ mul_overflows(wrapping_mul(self.nom, rhs), NS_PER_SEC)
    THEN {MulPanic,
          Nanos(wrapping_mul(wrapping_mul(self.nom, rhs), NS_PER_SEC) \div self.denom)}
    ELSE {Nanos((self.nom * rhs * NS_PER_SEC) \div self.denom)}

(***************************************************************************)
(* A valid Rate multiplied by one tick count.                              *)
(***************************************************************************)
\* Components of the rates: one tick a second, the clocks of the unit test
\* on the scale of NS_PER_SEC, and the end of the range.
MulComponents == {1, 2, 3, 80, 1000, U64_MAX}

MulRates ==
    {unwrap(Rate_new(n, d)) : <<n, d>> \in
        {p \in MulComponents \X MulComponents : is_some(Rate_new(p[1], p[2]))}}

\* Tick counts whose product with NS_PER_SEC is within the u64 range, at
\* its end, and beyond it.
MulTicks ==
    {0, 1, 2, 1000, U64_MAX \div NS_PER_SEC, U64_MAX \div NS_PER_SEC + 1,
     (U64_MAX \div NS_PER_SEC) * 2}

\* The rates and tick counts whose product in unbounded integers is at most
\* twice the u64 range.
MulInputs ==
    {i \in MulRates \X MulTicks :
        i[2] = 0 \/ i[1].nom <= ((U64_MAX \div NS_PER_SEC) * 2) \div i[2]}

InitMul ==
    /\ plugin_cfg = [rtos_mode |-> "None", init_task_name |-> None,
                     disable_interactions |-> FALSE]
    /\ ctx_mngr = ContextManager_new(plugin_cfg, CommonTimelineAttrs)
    /\ pc = "mul"
    /\ intr = FALSE
    /\ maybe_read_result = None
    /\ buffered_event = None
    /\ observed_timelines = {}
    /\ events_iter = <<>>
    /\ client_log = <<>>
    /\ result = None
    /\ malformed = 0
    /\ call = None
    /\ emitted = <<>>
    /\ produced = <<>>
    /\ client = Client_new
    /\ frame = None
    /\ built = None
    /\ rate_in \in {Some([op |-> "mul", self |-> i[1], rhs |-> i[2]]) : i \in MulInputs}
    /\ rate = None
    /\ rtt = None
    /\ instant = None

RateMul ==
    /\ pc = "mul"
    /\ rate = None
    /\ \E ns \in Rate_mul(unwrap(rate_in).self, unwrap(rate_in).rhs) :
          rate' = Some([res |-> ns])
    /\ UNCHANGED driver_vars
    /\ UNCHANGED <<plugin_cfg, ctx_mngr, call, emitted, client, frame, built, rate_in, rtt, instant>>

NextMul == RateMul

SpecMul == InitMul /\ [][NextMul]_vars

(***************************************************************************)
(* Properties of Rate's multiplication.                                    *)
(***************************************************************************)
MulApplied == is_some(rate) /\ unwrap(rate_in).op = "mul"

\* C31: a valid Rate n/d times any tick count t returns the floor of
\* n * t * NS_PER_SEC / d.
C31_MulIsFloor ==
    MulApplied =>
        /\ ~unwrap(rate).res.panic
        /\ unwrap(rate).res.ns
              = (unwrap(rate_in).self.nom * unwrap(rate_in).rhs * NS_PER_SEC)
                    \div unwrap(rate_in).self.denom

(***************************************************************************)
(* TrackingInstant (src/src/time.rs).  `upper` is a u32; its width is      *)
(* scaled to UpperBits, and the width of u32 ticks to U32_BITS so that     *)
(* as_ticks stays within the integers of the model checker.  The u8 and    *)
(* u16 ticks have their own widths.                                        *)
(***************************************************************************)
UpperBits == 2

U8_BITS == 8

U16_BITS == 16

U32_BITS == 24

\* u32::MAX, of `upper`
UPPER_MAX == 2 ^ UpperBits - 1

\* TicksExt::WIDTH
WIDTH(T) == CASE T = "u8" -> U8_BITS [] T = "u16" -> U16_BITS [] T = "u32" -> U32_BITS

\* TicksExt::MAX
MAX(T) == 2 ^ WIDTH(T) - 1

\* TicksExt::to_ticks
to_ticks(lower) == lower

\* TrackingInstant::zero
TrackingInstant_zero(T) == [T |-> T, lower |-> 0, upper |-> 0]

\* u64::from(self.upper) << T::WIDTH | self.lower.to_ticks(): the two
\* operands share no bit
as_ticks(self) == self.upper * 2 ^ WIDTH(self.T) + to_ticks(self.lower)

\* `if now < self.lower { self.upper += 1; }`: the values `upper` can have
\* afterwards; at u32::MAX the addition panics (None) in a build with
\* overflow checks and wraps in one without.
upper_after(self, now) ==
    IF now < self.lower
    THEN IF self.upper = UPPER_MAX THEN {None, Some(0)} ELSE {Some(self.upper + 1)}
    ELSE {Some(self.upper)}

\* TrackingInstant::elapsed, once `upper` is settled
elapsed(self, now, upper) == [self EXCEPT !.upper = upper, !.lower = now]

(***************************************************************************)
(* A TrackingInstant given one reading after another.                      *)
(***************************************************************************)
MaxElapsed == 5

TicksTypes == {"u8", "u16", "u32"}

\* Readings at both ends of the range of T and between.
Readings(T) == {0, 1, 2, 10, MAX(T) - 5, MAX(T)}

InitInstant ==
    /\ plugin_cfg = [rtos_mode |-> "None", init_task_name |-> None,
                     disable_interactions |-> FALSE]
    /\ ctx_mngr = ContextManager_new(plugin_cfg, CommonTimelineAttrs)
    /\ pc = "instant"
    /\ intr = FALSE
    /\ maybe_read_result = None
    /\ buffered_event = None
    /\ observed_timelines = {}
    /\ events_iter = <<>>
    /\ client_log = <<>>
    /\ result = None
    /\ malformed = 0
    /\ call = None
    /\ emitted = <<>>
    /\ produced = <<>>
    /\ client = Client_new
    /\ frame = None
    /\ built = None
    /\ rate_in = None
    /\ rate = None
    /\ rtt = None
    /\ \E T \in TicksTypes :
          instant = Some([self |-> TrackingInstant_zero(T),
                          readings |-> <<>>,    \* history: the readings given
                          returned |-> <<>>,    \* history: what elapsed returned
                          panicked |-> FALSE])

Elapsed ==
    /\ pc = "instant"
    /\ ~unwrap(instant).panicked
    /\ Len(unwrap(instant).readings) < MaxElapsed
    /\ \E now \in Readings(unwrap(instant).self.T) :
       \E upper \in upper_after(unwrap(instant).self, now) :
          LET i == unwrap(instant)
              self == elapsed(i.self, now, unwrap(upper))
          IN  IF is_none(upper)
              THEN instant' = Some([i EXCEPT !.readings = Append(@, now),
                                             !.panicked = TRUE])
              ELSE instant' = Some([i EXCEPT !.self = self,
                                             !.readings = Append(@, now),
                                             !.returned = Append(@, as_ticks(self))])
    /\ UNCHANGED driver_vars
    /\ UNCHANGED <<plugin_cfg, ctx_mngr, call, emitted, client, frame, built, rate_in, rate, rtt>>

NextInstant == Elapsed

SpecInstant == InitInstant /\ [][NextInstant]_vars

(***************************************************************************)
(* Properties of TrackingInstant.                                          *)
(***************************************************************************)
\* The reading before the i-th: zero before the first.
Preceding(readings, i) == IF i = 1 THEN 0 ELSE readings[i - 1]

\* The calls among the first i whose reading was less than the preceding one.
Rollovers(readings, i) ==
    Cardinality({j \in 1..i : readings[j] < Preceding(readings, j)})

\* Every call so far returned the rollovers times 2^WIDTH plus its reading,
\* and no less than the call before it.
ElapsedCountsRollovers ==
    LET i == unwrap(instant)
    IN  /\ ~i.panicked
        /\ Len(i.returned) = Len(i.readings)
        /\ \A n \in 1..Len(i.returned) :
              i.returned[n] = Rollovers(i.readings, n) * 2 ^ WIDTH(i.self.T) + i.readings[n]
        /\ \A n \in 2..Len(i.returned) : i.returned[n - 1] <= i.returned[n]

\* C32: after any sequence of elapsed calls on a TrackingInstant that began
\* at zero, every returned value is r * 2^WIDTH + now with r the number of
\* readings so far that were less than the one before; the returned values
\* never decrease.
C32_ElapsedCountsRollovers == ElapsedCountsRollovers

(***************************************************************************)
(* Properties of the interactions between timelines.                       *)
(***************************************************************************)
\* An emitted event with interaction attributes names the timeline and the
\* stamped nonce of the event emitted just before it.
InteractionNamesPreviousEvent ==
    \A i \in 1..Len(produced) :
        has_interaction(produced[i].record) =>
            /\ i > 1
            /\ RemoteTimelineId(produced[i].record)
                  = ctx_mngr.contexts_to_timelines[produced[i - 1].context].id
            /\ internal_nonce(produced[i - 1].record)
                  = Some(RemoteNonce(produced[i].record))

\* A sent event with the user-visible interaction attributes follows a sent
\* event whose promoted event.nonce is its remote nonce, on the timeline
\* that is its remote timeline.
PromotedNonceIsRemoteNonce ==
    \A j \in 1..Len(client_log) :
        (client_log[j].op = "send_event" /\ REMOTE_NONCE \in DOMAIN client_log[j].attrs) =>
            /\ j > 3
            /\ client_log[j - 2].op = "send_event"
            /\ NONCE \in DOMAIN client_log[j - 2].attrs
            /\ client_log[j - 2].attrs[NONCE] = client_log[j].attrs[REMOTE_NONCE]
            /\ client_log[j - 3].op = "switch_timeline"
            /\ TimelineIdVal(client_log[j - 3].id)
                  = client_log[j].attrs[REMOTE_TIMELINE_ID]

\* C33: in rtic1 mode an emitted event, real or synthetic, that carries
\* interaction attributes names the timeline and the stamped nonce of the
\* event emitted just before it; and the event.nonce the driver promotes on
\* that previous event equals the remote nonce, on the remote timeline.
C33_InteractionNamesPreviousEvent ==
    InteractionNamesPreviousEvent /\ PromotedNonceIsRemoteNonce

\* A synthetic event with the interaction of the exit before it was sent
\* after that exit event, whose nonce was promoted.
C33_Witness ==
    \E j \in 4..Len(client_log) :
        /\ client_log[j].op = "send_event"
        /\ is_synthetic(client_log[j].attrs)
        /\ REMOTE_NONCE \in DOMAIN client_log[j].attrs
        /\ event_name(client_log[j - 2].attrs) = Some(ISR_EXIT)
        /\ client_log[j - 2].attrs[NONCE] = client_log[j].attrs[REMOTE_NONCE]

\* C34: a synthetic AUXON_CONTEXT_RETURN event is emitted only with a
\* pending context-switch interaction stashed: every synthetic event
\* carries interaction attributes, those of the exit event before it.
C34_SyntheticCarriesInteraction ==
    \A i \in 1..Len(emitted) :
        emitted[i].synthetic =>
            /\ i > 1
            /\ is_some(emitted[i].remote)
            /\ emitted[i - 1].nonce = Some(unwrap(emitted[i].remote)[2])

\* The flags a context pop leaves: the timeline of the new top of the stack
\* requires a synthetic event, the popped timeline does not.
PopMarksNewTop ==
    (/\ ctx_mngr'.event_counter # ctx_mngr.event_counter
     /\ unwrap(call').is_exit
     /\ unwrap(call').popped)
    => LET popped == ctx_mngr.context_stack[Len(ctx_mngr.context_stack)]
           top == ctx_mngr'.context_stack[Len(ctx_mngr'.context_stack)]
       IN  /\ ctx_mngr'.context_stack
                 = SubSeq(ctx_mngr.context_stack, 1, Len(ctx_mngr.context_stack) - 1)
           /\ unwrap(ctx_mngr'.pending_context_switch_interaction)[2]
                 = ctx_mngr.contexts_to_timelines[popped].id
           /\ ctx_mngr'.contexts_to_timelines[top].requires_synthetic_interaction_event

PopClearsPopped ==
    (/\ ctx_mngr'.event_counter # ctx_mngr.event_counter
     /\ unwrap(call').is_exit
     /\ unwrap(call').popped)
    => LET popped == ctx_mngr.context_stack[Len(ctx_mngr.context_stack)]
       IN  ~ctx_mngr'.contexts_to_timelines[popped].requires_synthetic_interaction_event

\* C35 as stated: when an exit record pops a context, the exit event stays
\* on the popped context, the stashed interaction names the popped timeline
\* with the nonce stamped on the exit event (the popped nonce plus one), the
\* new top's timeline is marked as requiring a synthetic event and the
\* popped timeline's flag is cleared.
C35_PopStashesAndMarks ==
    [][ExitStashesStampedNonce /\ PopMarksNewTop /\ PopClearsPopped]_vars

\* The popped context and the context below it on the stack differ.
PopsOntoAnotherContext ==
    /\ Len(ctx_mngr.context_stack) > 1
    /\ ctx_mngr.context_stack[Len(ctx_mngr.context_stack)]
          # ctx_mngr.context_stack[Len(ctx_mngr.context_stack) - 1]

\* C35, amended: the popped timeline's flag is cleared when the context
\* below it on the stack is another one; a context nested in itself is
\* both the popped one and the new top, and its flag ends set.
C35_PopStashesAndMarksAmended ==
    [][/\ ExitStashesStampedNonce
       /\ PopMarksNewTop
       /\ PopsOntoAnotherContext => PopClearsPopped]_vars

\* Two exit records in a row each popped a context: the second one popped a
\* timeline whose flag the first had set, and left it cleared.
C35_Witness ==
    /\ is_some(call)
    /\ unwrap(call).is_exit
    /\ unwrap(call).popped
    /\ unwrap(call).after_pop
    /\ is_some(ctx_mngr.pending_context_switch_interaction)
    /\ LET before == unwrap(call).stack_before
           popped == before[Len(before)]
           top == ctx_mngr.context_stack[Len(ctx_mngr.context_stack)]
       IN  /\ popped # top
           /\ ~ctx_mngr.contexts_to_timelines[popped].requires_synthetic_interaction_event
           /\ ctx_mngr.contexts_to_timelines[top].requires_synthetic_interaction_event

\* The keys an event with an interaction carries and its flag follow
\* disable_interactions; an event without an interaction is not flagged.
InteractionKeysFollowConfig ==
    \A i \in 1..Len(produced) :
        LET record == produced[i].record
            visible == {REMOTE_TIMELINE_ID, REMOTE_NONCE}
            internal == {INTERNAL_REMOTE_TIMELINE_ID, INTERNAL_REMOTE_NONCE}
        IN  IF ~has_interaction(record)
            THEN ~produced[i].add_previous_event_nonce
            ELSE IF ~plugin_cfg.disable_interactions
            THEN /\ visible \subseteq DOMAIN record
                 /\ internal \cap DOMAIN record = {}
                 /\ produced[i].add_previous_event_nonce
            ELSE /\ internal \subseteq DOMAIN record
                 /\ visible \cap DOMAIN record = {}
                 /\ ~produced[i].add_previous_event_nonce

\* With interactions disabled no event is sent with event.nonce.
NoNonceSentWhenDisabled ==
    plugin_cfg.disable_interactions =>
        \A j \in 1..Len(client_log) :
            client_log[j].op = "send_event" => NONCE \notin DOMAIN client_log[j].attrs

ReturnsOneRealEvent ==
    ctx_mngr'.event_counter # ctx_mngr.event_counter =>
        LET c == unwrap(call')
            g == ctx_mngr.global_ordering + 1
            before == c.stack_before
        IN  /\ c.ok
            /\ Len(c.events) \in {1, 2}
            /\ ~c.events[Len(c.events)].synthetic
            /\ c.events[Len(c.events)].event_counter = Some(ctx_mngr'.event_counter)
            /\ Len(c.events) = 1 => c.events[1].global_ordering = g
            /\ Len(c.events) = 2 =>
                  /\ c.events[1].synthetic
                  /\ before # <<>>
                  /\ c.events[1].context = before[Len(before)]
                  /\ c.events[1].global_ordering = g
                  /\ c.events[2].global_ordering = g + 1

\* C37: each process_record call returns exactly one real event, preceded
\* by at most one synthetic event; the synthetic event comes first, is on
\* the context active before the push and takes the call's incremented
\* global_ordering g, the real event then takes g + 1; without a synthetic
\* event the real event takes g.
C37_ReturnsOneRealEvent == [][ReturnsOneRealEvent]_vars

\* A call returned a synthetic event on the context below the entered one,
\* followed by the enter event with the next global_ordering.
C37_Witness ==
    /\ is_some(call)
    /\ Len(unwrap(call).events) = 2
    /\ unwrap(call).events[1].synthetic
    /\ unwrap(call).events[1].context # unwrap(call).events[2].context
    /\ unwrap(call).events[2].global_ordering = unwrap(call).events[1].global_ordering + 1

\* The contexts whose timeline requires a synthetic interaction event.
Flagged ==
    {c \in DOMAIN ctx_mngr.contexts_to_timelines :
        ctx_mngr.contexts_to_timelines[c].requires_synthetic_interaction_event}

\* Only the timeline of the active context can be flagged.
OnlyActiveFlagged ==
    ctx_mngr.cfg.rtos_mode = "Rtic1" =>
        \A c \in Flagged :
            /\ ctx_mngr.context_stack # <<>>
            /\ c = ctx_mngr.context_stack[Len(ctx_mngr.context_stack)]

\* A stashed interaction goes with a flagged active timeline.
PendingImpliesFlagged ==
    (ctx_mngr.cfg.rtos_mode = "Rtic1"
        /\ is_some(ctx_mngr.pending_context_switch_interaction)) =>
        /\ ctx_mngr.context_stack # <<>>
        /\ ctx_mngr.context_stack[Len(ctx_mngr.context_stack)] \in Flagged

\* C38: between process_record calls in rtic1 mode at most one timeline
\* requires a synthetic interaction event and it is the timeline of the
\* active context; and whenever a pending context-switch interaction is
\* stashed, the active timeline's flag is set.
C38_OnlyActiveFlagged == OnlyActiveFlagged /\ PendingImpliesFlagged

\* In rtic1 mode, after two exits in a row on a stack of three, an
\* interaction is stashed and of the three timelines only the active one is
\* flagged.
C38_Witness ==
    /\ ctx_mngr.cfg.rtos_mode = "Rtic1"
    /\ is_some(ctx_mngr.pending_context_switch_interaction)
    /\ is_some(call)
    /\ unwrap(call).popped
    /\ unwrap(call).after_pop
    /\ Cardinality(DOMAIN ctx_mngr.contexts_to_timelines) > 2
    /\ Flagged = {ctx_mngr.context_stack[Len(ctx_mngr.context_stack)]}

\* No call of process_record has failed.
NeverInternalState == is_some(call) => unwrap(call).ok

\* The context of every emitted event has a timeline.
EmittedContextsHaveTimelines ==
    \A i \in 1..Len(emitted) : is_some(timeline_meta(ctx_mngr, emitted[i].context))

\* C40: for every sequence of records and either configured mode,
\* process_record never returns ContextManagerInternalState, and
\* timeline_meta succeeds for the context of every event it has emitted.
C40_NeverInternalState == NeverInternalState /\ EmittedContextsHaveTimelines

\* After an invalid start in rtic1 mode sent the manager to the fallback
\* context, further records were processed and an event was emitted on
\* UNKNOWN_CONTEXT, whose timeline exists.
C40_Witness ==
    /\ plugin_cfg.rtos_mode = "Rtic1"
    /\ is_some(call)
    /\ unwrap(call).ok
    /\ unwrap(call).started_invalid
    /\ Len(emitted) > 2
    /\ emitted[Len(emitted)].context = context_id(UNKNOWN_CONTEXT)
    /\ is_some(timeline_meta(ctx_mngr, context_id(UNKNOWN_CONTEXT)))

(***************************************************************************)
(* The driver's calls of switch_timeline and send_event.                   *)
(***************************************************************************)
\* Every send_event follows a switch_timeline to the timeline of the sent
\* event's context; the i-th event sent is the i-th event produced.
SendFollowsSwitch ==
    \A j \in 1..Len(client_log) :
        client_log[j].op = "send_event" =>
            /\ j % 2 = 0
            /\ j \div 2 <= Len(produced)
            /\ client_log[j].ordering = produced[j \div 2].global_ordering
            /\ client_log[j - 1].op = "switch_timeline"
            /\ client_log[j - 1].id
                  = ctx_mngr.contexts_to_timelines[produced[j \div 2].context].id

\* The attributes of a timeline are passed on the first switch to it and on
\* no later one.
AttrsOnFirstSwitchOnly ==
    \A j \in 1..Len(client_log) :
        client_log[j].op = "switch_timeline" =>
            LET first == \A k \in 1..(j - 1) :
                             client_log[k].op = "switch_timeline"
                                 => client_log[k].id # client_log[j].id
            IN  IF first
                THEN \E c \in DOMAIN ctx_mngr.contexts_to_timelines :
                        /\ ctx_mngr.contexts_to_timelines[c].id = client_log[j].id
                        /\ client_log[j].new_timeline_attrs
                              = Some(ctx_mngr.contexts_to_timelines[c].attributes)
                ELSE is_none(client_log[j].new_timeline_attrs)

\* A timeline is opened only for an event that is then sent on it.
SwitchPrecedesSend ==
    \A j \in 1..Len(client_log) :
        client_log[j].op = "switch_timeline" =>
            /\ j < Len(client_log)
            /\ client_log[j + 1].op = "send_event"

\* The same, but for the switch after which send_event failed and ended
\* the run.
SwitchPrecedesSendUnlessFailed ==
    \A j \in 1..Len(client_log) :
        client_log[j].op = "switch_timeline" =>
            \/ /\ j < Len(client_log)
               /\ client_log[j + 1].op = "send_event"
            \/ /\ j = Len(client_log)
               /\ pc = "done"
               /\ result = Some("Ingest")

\* C39 as stated: the driver passes a timeline's attributes to
\* switch_timeline exactly once, on the switch just before the first event
\* sent on that timeline; every send_event is immediately preceded by a
\* switch_timeline to the timeline of the event's context; a timeline that
\* never carries a sent event is never opened.
C39_SwitchBeforeEverySend ==
    SendFollowsSwitch /\ AttrsOnFirstSwitchOnly /\ SwitchPrecedesSend

\* C39, amended: a timeline can be opened without carrying a sent event
\* only when the send_event after the switch fails, which ends the run.
C39_SwitchBeforeEverySendAmended ==
    SendFollowsSwitch /\ AttrsOnFirstSwitchOnly /\ SwitchPrecedesSendUnlessFailed

\* Events were sent on one timeline, then on another, then on the first
\* again: the last switch passes no attributes, the first two pass them.
C39_Witness ==
    \E i, j, k \in 1..Len(client_log) :
        /\ i < j
        /\ j < k
        /\ k < Len(client_log)
        /\ client_log[i].op = "switch_timeline"
        /\ client_log[j].op = "switch_timeline"
        /\ client_log[k].op = "switch_timeline"
        /\ client_log[k + 1].op = "send_event"
        /\ client_log[i].id = client_log[k].id
        /\ client_log[j].id # client_log[i].id
        /\ is_some(client_log[i].new_timeline_attrs)
        /\ is_some(client_log[j].new_timeline_attrs)
        /\ is_none(client_log[k].new_timeline_attrs)
====
